---- MODULE Spec2Model ----
(***************************************************************************)
(* A model of mcedit: the line-delimited JSON-RPC serving loop over        *)
(* stdin/stdout (mcp/stdio.rs, mcp/handler.rs) and the file service it     *)
(* drives (file_service/service.rs, file_service/backup.rs,                *)
(* editor/file_editor.rs).                                                 *)
(*                                                                         *)
(* Spec         the background reader, the broadcast queue and the serving *)
(*              loop of McpHandler::launch_mcp.                            *)
(* SpecResolve  FileService::resolve_path over a small directory tree.     *)
(* SpecFS       the operations of FileService with their backups.          *)
(* SpecBackup   many backups of one file: retention in BackupManager.      *)
(* SpecLive     Spec with the serving loop scheduled fairly.               *)
(* SpecEdit     the line operations of FileEditor on one small file.       *)
(* SpecDiff     DiffGenerator::generate_unified_diff over pairs of texts.  *)
(* SpecRestore  writes, deletions and restore_latest_backup of one file.   *)
(* SpecSuggest  "create" suggestions with every value of overwrite.        *)
(* SpecOrder    Spec with the awaits of one pass of the loop as steps.     *)
(* SpecChdir    change_directory followed by resolve_path.                 *)
(* SpecSend     two callers of StdioTransport::send, step by step.         *)
(* SpecWhole    read, append, create and rename on every kind of path.     *)
(* SpecParse    parse_json_message over short lines of characters.         *)
(* SpecProject  McEdit::change_current_directory with writes and backups.   *)
(***************************************************************************)
EXTENDS Integers, Sequences, FiniteSets, TLC

\* ------------------------------------------------------------------ bounds
\* The capacity of the broadcast channel: how many published items the
\* background reader may be ahead of the loop before the oldest is
\* overwritten. StdioTransport::new asks for 100.
MaxQueue == 1

\* How many file service calls are made in one run.
MaxOps == 2

\* How many readings the clock has within one millisecond.
TicksPerMs == 2

\* How many backups of one file are made in one run of SpecBackup.
MaxCreated == 11

\* The largest line number asked for in SpecEdit.
MaxLine == 3

\* How many editor calls are made in one run of SpecEdit.
MaxEdits == 1

\* The most lines a text handed to generate_unified_diff has in SpecDiff,
\* but for one line more in the texts of GrownTexts.
MaxDiffLines == 4

\* How many file service calls are made in one run of SpecRestore.
MaxRestoreOps == 3

\* How many requests the client writes in one run of SpecOrder.
MaxServed == 3

\* How many calls of send are made in one run of SpecSend.
MaxSends == 3

\* How many characters a line of SpecParse has at most.
MaxText == 5

VARIABLES
    readerState,   \* the task spawned in StdioTransport::new: "reading" | "stopped"
    subscribed,    \* launch_mcp has called transport.receive()
    queue,         \* items published to this subscription and not yet taken
    pc,            \* launch_mcp: "start" | "loop" | "returned_err" | "returned_ok"
    initialized,   \* McpHandler.initialized
    last,          \* what the loop did with the item it took last
    probeRejected, \* ProbeRequest has been answered "not initialized"
    world,         \* the file system: directories, files, backup files
    base_directory, \* FileService.base_directory
    backup_dir,    \* BackupManager.backup_dir
    now,           \* the clock reading at the last file service call
    ops,           \* file service calls made so far
    created,       \* create_backup calls that returned Ok so far
    fsLast,        \* what the last file service call did
    diffed,        \* the last call of generate_unified_diff and its result
    serving,       \* launch_mcp step by step: the request in hand, the events so far
    sending,       \* the mutex of stdout, the callers of send, the bytes written
    parsed,        \* a line of input as text, and what parse_json_message made of it
    current_directory, \* McEdit.current_directory
    analyzer_root  \* the root of McEdit.project_analyzer

protoVars == <<readerState, subscribed, queue, pc, initialized, last, probeRejected>>

fsVars == <<world, base_directory, backup_dir, now, ops, created, fsLast>>

mcVars == <<current_directory, analyzer_root>>

vars == <<readerState, subscribed, queue, pc, initialized, last, probeRejected,
          world, base_directory, backup_dir, now, ops, created, fsLast, diffed, serving, sending, parsed,
          current_directory, analyzer_root>>

\* ------------------------------------------------------------- messages
\* Request ids drawn for inbound messages.
Ids == {1, 2}

ToolNames ==
    {"read_file", "write_file", "list_files", "search_files", "analyze_project",
     "apply_suggestion", "generate_diff", "change_directory", "create_file",
     "rename_file", "delete_file"}

\* The tool names the modelled client sends: tools with required arguments,
\* a tool without any, and a name that is no tool.
ToolsTried == {"write_file", "rename_file", "list_files", "no_such_tool"}

\* The keys the handlers look up in params["arguments"].
ArgNames ==
    {"path", "content", "pattern", "query", "suggestion", "original", "modified",
     "directory", "from_path", "to_path"}

\* params["arguments"]: `given` is whether the key is there at all; `of` is,
\* for each key, whether its value is a JSON string, a value of another type,
\* or missing.
NoArguments == [given |-> FALSE, of |-> [a \in ArgNames |-> "missing"]]

Arguments(strings, others) ==
    [given |-> TRUE,
     of |-> [a \in ArgNames |->
                IF a \in strings THEN "string"
                ELSE IF a \in others THEN "other" ELSE "missing"]]

\* The arguments each handler takes with `match .. { Some(..) => .., None =>
\* return InvalidParams }`; list_files takes its pattern as an Option and
\* analyze_project takes nothing.
RequiredArgs(name) ==
    CASE name \in {"read_file", "delete_file"} -> {"path"}
      [] name \in {"write_file", "create_file"} -> {"path", "content"}
      [] name = "search_files" -> {"query"}
      [] name = "apply_suggestion" -> {"path", "suggestion"}
      [] name = "generate_diff" -> {"original", "modified"}
      [] name = "change_directory" -> {"directory"}
      [] name = "rename_file" -> {"from_path", "to_path"}
      [] OTHER -> {}

\* params_val.get("arguments").and_then(|args| args.get(a)).and_then(|v|
\* v.as_str()) is Some.
AsStr(args, a) == args.given /\ args.of[a] = "string"

ArgumentsUnchecked(name, args) == TRUE

\* Every `match` on a required argument of the named tool takes its Some arm.
ArgumentsValid(name, args) == \A a \in RequiredArgs(name) : AsStr(args, a)

RoutedMethods == {"initialize", "tools/list", "tools/call", "resources/list", "prompts/list"}

MethodsTried == RoutedMethods \cup {"no/such/method"}

\* params: Option<Value>.  `present` is Some/None; name is params["name"]
\* ("" when absent or not a string); args is params["arguments"].
NoParams == [present |-> FALSE, name |-> "", args |-> NoArguments]

OtherParams == [present |-> TRUE, name |-> "", args |-> NoArguments]

ToolParams(name, args) == [present |-> TRUE, name |-> name, args |-> args]

\* The arguments sent with each tool: all that is required, one required
\* argument left out, one given with a value that is no string, no
\* "arguments" at all.
ArgumentsTried(name) ==
    CASE name = "write_file" ->
            {Arguments({"path", "content"}, {}), Arguments({"path"}, {}), NoArguments}
      [] name = "rename_file" ->
            {Arguments({"from_path", "to_path"}, {}),
             Arguments({"from_path"}, {"to_path"})}
      [] name = "list_files" -> {Arguments({}, {"pattern"})}
      [] OTHER -> {NoArguments}

ParamsTried(method) ==
    IF method = "tools/call"
    THEN {NoParams, OtherParams}
         \cup UNION {{ToolParams(n, a) : a \in ArgumentsTried(n)} : n \in ToolsTried}
    ELSE IF method = "tools/list" THEN {NoParams, OtherParams}
    ELSE {NoParams}

Request(id, method, params) ==
    [kind |-> "request", id |-> id, method |-> method, params |-> params]

Notification(method) ==
    [kind |-> "notification", id |-> 0, method |-> method, params |-> NoParams]

Response(id) ==
    [kind |-> "response", id |-> id, method |-> "", params |-> NoParams]

\* What a decode produces when the text is not a Message.
NoMessage == [kind |-> "none", id |-> 0, method |-> "", params |-> NoParams]

\* Every method with every params under the first id; under the others a
\* listing and an unknown method without params and one tools/call that lacks
\* a required argument.
RequestsTried ==
    UNION {{Request(1, m, p) : p \in ParamsTried(m)} : m \in MethodsTried}
    \cup {Request(i, m, NoParams) : i \in Ids, m \in {"tools/list", "no/such/method"}}
    \cup {Request(i, "tools/call", ToolParams("write_file", Arguments({"path"}, {}))) :
             i \in Ids}

\* The request followed from its rejection before initialize to its handling
\* after it.
ProbeRequest == Request(1, "tools/list", NoParams)

\* ------------------------------------------------------- outbound messages
LogNotification ==
    [kind |-> "notification", id |-> 0, code |-> "", body |-> "$/log"]

ResultResponse(id, body) ==
    [kind |-> "response", id |-> id, code |-> "", body |-> body]

ErrorResponse(id, code) ==
    [kind |-> "response", id |-> id, code |-> code, body |-> "error"]

\* Transport::send: the line is written to stdout when the write and the flush
\* succeed (sendOk); otherwise send returns an Error and nothing is written.
Send(message, sendOk) ==
    IF sendOk THEN [ok |-> TRUE, written |-> <<message>>]
    ELSE [ok |-> FALSE, written |-> <<>>]

SendErrorResponse(id, code, sendOk) == Send(ErrorResponse(id, code), sendOk)

SendTextResponse(id, sendOk) == Send(ResultResponse(id, "text"), sendOk)

\* ---------------------------------------------------------------- input
\* An input line, by what serde_json makes of it: `strict` is the decode of the
\* trimmed line as received, `normalized` the decode of the line after the
\* replacements of parse_json_message (control characters to spaces, \\ to \,
\* \" to "), which is the same when the line holds none of those.
EmptyLine == [empty |-> TRUE, strict |-> NoMessage, normalized |-> NoMessage]

PlainLine(msg) == [empty |-> FALSE, strict |-> msg, normalized |-> msg]

\* Not JSON at all, or JSON that is no Message.
GarbageLine == PlainLine(NoMessage)

\* A Message whose strings hold escaped quotes or backslashes: the replacements
\* leave text that is no Message any more.
EscapedLine(msg) == [empty |-> FALSE, strict |-> msg, normalized |-> NoMessage]

\* A Message sent with its quotes escaped: not a Message as received, one after
\* the replacements.
OverEscapedLine(msg) == [empty |-> FALSE, strict |-> NoMessage, normalized |-> msg]

Lines ==
    {EmptyLine, GarbageLine}
    \cup {PlainLine(m) : m \in RequestsTried}
    \cup {PlainLine(Notification("notifications/initialized")), PlainLine(Response(1))}
    \cup {EscapedLine(Request(1, "tools/call", ToolParams("write_file", Arguments({"path", "content"}, {})))),
          OverEscapedLine(Request(1, "initialize", NoParams))}

\* The decode of the literal fallback text of parse_json_message, which ends in
\* "}}": trailing characters, so it is no Message.
FallbackDecode == NoMessage

OkItem(msg) == [ok |-> TRUE, msg |-> msg]

ErrItem == [ok |-> FALSE, msg |-> NoMessage]

ParseJsonMessage(line) ==
    IF line.empty THEN ErrItem
    ELSE IF line.normalized # NoMessage THEN OkItem(line.normalized)
    ELSE IF FallbackDecode # NoMessage THEN OkItem(FallbackDecode)
    ELSE ErrItem

\* What heads the queue of a receiver that has fallen behind: its next recv
\* returns Err(RecvError::Lagged) before the items that are left.
LaggedMark == [ok |-> FALSE, msg |-> [NoMessage EXCEPT !.kind = "lagged"]]

Lagging(q) == q # <<>> /\ Head(q) = LaggedMark

\* The items of the queue that recv can still return.
Retained(q) == IF Lagging(q) THEN Tail(q) ELSE q

\* broadcast::Sender::send as seen by the stream of launch_mcp: a receiver made
\* by resubscribe() sees only what is sent after it was made. The send never
\* waits: into a full channel it overwrites the oldest item, and the receiver
\* that had not taken it has fallen behind.
Publish(q, item, isSubscribed) ==
    IF ~isSubscribed THEN q
    ELSE IF Len(Retained(q)) < MaxQueue THEN Append(q, item)
    ELSE <<LaggedMark>> \o Tail(Append(Retained(q), item))

\* ------------------------------------------------------------- handlers
\* logging::log_both: the message goes to stderr, and to the client as a
\* "$/log" notification.
LogBoth(sendOk) == Send(LogNotification, sendOk)

\* McpHandler::handle_initialize
HandleInitialize(id, sendOk) == Send(ResultResponse(id, "initialize"), sendOk)

\* The handlers of the tools: those with required arguments answer
\* InvalidParams before they call McEdit; the others call it at once.  A call
\* of McEdit that fails is answered InternalError by the handler itself.
\* generate_unified_diff has no failing path.
HandleTool(id, params, sendOk, engineOk) ==
    IF ~ArgumentsValid(params.name, params.args)
    THEN [send |-> SendErrorResponse(id, "InvalidParams", sendOk), engine |-> FALSE]
    ELSE IF engineOk \/ params.name = "generate_diff"
    THEN [send |-> SendTextResponse(id, sendOk), engine |-> TRUE]
    ELSE [send |-> SendErrorResponse(id, "InternalError", sendOk), engine |-> TRUE]

\* McpHandler::handle_tools_call
HandleToolsCall(id, params, sendOk, engineOk) ==
    IF params.name \in ToolNames THEN HandleTool(id, params, sendOk, engineOk)
    ELSE [send |-> SendErrorResponse(id, "MethodNotFound", sendOk), engine |-> FALSE]

\* handle_request, "tools/call": the handler is called only `if let Some(..)
\* = params`; without params the arm does nothing and returns Ok.
ToolsCallArm(id, params, sendOk, engineOk) ==
    IF params.present THEN HandleToolsCall(id, params, sendOk, engineOk)
    ELSE [send |-> [ok |-> TRUE, written |-> <<>>], engine |-> FALSE]

\* handle_request without its match: every method is answered as tools/list
\* is.
HandleRequestWithoutLastArm(req, sendOk, engineOk) ==
    [send |-> Send(ResultResponse(req.id, "tools"), sendOk), engine |-> FALSE]

\* McpHandler::handle_request
HandleRequest(req, sendOk, engineOk) ==
    CASE req.method = "initialize" ->
            [send |-> HandleInitialize(req.id, sendOk), engine |-> FALSE]
      [] req.method = "tools/list" ->
            [send |-> Send(ResultResponse(req.id, "tools"), sendOk), engine |-> FALSE]
      [] req.method = "tools/call" ->
            ToolsCallArm(req.id, req.params, sendOk, engineOk)
      [] req.method = "resources/list" ->
            [send |-> Send(ResultResponse(req.id, "resources"), sendOk), engine |-> FALSE]
      [] req.method = "prompts/list" ->
            [send |-> Send(ResultResponse(req.id, "prompts"), sendOk), engine |-> FALSE]
      [] OTHER ->
            [send |-> SendErrorResponse(req.id, "MethodNotFound", sendOk), engine |-> FALSE]

\* `self.initialized` taking what handle_initialize returned.
InitializedAsHandled(handledOk) == handledOk


\* launch_mcp: `self.initialized = true` follows handle_initialize whatever
\* it returned.
InitializedAfterInitialize(handledOk) == TRUE

MustRejectNever(isInitialized) == FALSE

\* launch_mcp: `if !self.initialized` for every request that is not initialize.
MustReject(isInitialized) == ~isInitialized

AfterReceiveErrorReturns == "returned_err"

\* launch_mcp: the Err(e) arm logs to stderr and the loop goes on.
AfterReceiveError == "loop"

\* launch_mcp: a `?` on a failed send returns from the loop.
AfterSend(ok) == IF ok THEN "loop" ELSE "returned_err"

\* What the loop did with one item.
Outcome(took, item, initBefore, written, routed, handlerFailed, engine, sendFailed) ==
    [took |-> took, item |-> item, initBefore |-> initBefore, written |-> written,
     routed |-> routed, handlerFailed |-> handlerFailed, engine |-> engine,
     sendFailed |-> sendFailed, afterError |-> last.afterError]

NothingTaken ==
    [took |-> "nothing", item |-> ErrItem, initBefore |-> FALSE, written |-> <<>>,
     routed |-> FALSE, handlerFailed |-> FALSE, engine |-> FALSE,
     sendFailed |-> FALSE, afterError |-> FALSE]

\* ------------------------------------------------------------ file system
\* A path is a sequence of components, ".." being the parent component. The
\* paths the service holds are absolute; a requested path is relative or
\* absolute. There are no symbolic links in the trees modelled.
AbsPath(comps) == [abs |-> TRUE, comps |-> comps]

RelPath(comps) == [abs |-> FALSE, comps |-> comps]

\* The names of which one is a proper textual prefix of the other.
ProperPrefixes == {<<"p", "pq">>}

IsStrPrefix(a, b) == a = b \/ <<a, b>> \in ProperPrefixes

\* str::starts_with on the strings of two absolute paths: below the last
\* component of the base the separators line up, so only that component may
\* be a proper prefix of the one in the same place.
StrStartsWith(path, base) ==
    \/ base = <<>>
    \/ /\ Len(path) >= Len(base)
       /\ \A i \in 1..(Len(base) - 1) : path[i] = base[i]
       /\ IsStrPrefix(base[Len(base)], path[Len(base)])

\* Path::starts_with: whole components.
PathStartsWith(path, base) ==
    /\ Len(path) >= Len(base)
    /\ SubSeq(path, 1, Len(base)) = base

\* Path::parent and Path::file_name.
ParentOf(path) == IF path = <<>> THEN <<>> ELSE SubSeq(path, 1, Len(path) - 1)

HasFileName(path) == path # <<>> /\ path[Len(path)] # ".."

FileName(path) == path[Len(path)]

\* File content is text: a sequence of characters, "\n" the line feed.
Texts == {<<"x">>, <<"y", "\n">>}

ProjectText == <<"a", "\n", "b">>

\* A file system: the directories, the files with their content, and the
\* backup files kept under the .backups directories.
ProjectDir == <<"p">>

ProjectWorld ==
    [dirs |-> {<<>>, <<"p">>, <<"p", "d">>},
     files |-> (<<"p", "f">> :> ProjectText),
     bk |-> {}]

IsDirAt(w, loc) == loc \in w.dirs

IsFileAt(w, loc) == loc \in DOMAIN w.files

\* What the kernel does with a path: every component walked through is an
\* existing directory, ".." steps to the parent (the root is its own parent),
\* the last component is a directory or a file.
RECURSIVE Walk(_, _, _)
Walk(w, cur, comps) ==
    IF comps = <<>> THEN [ok |-> TRUE, loc |-> cur]
    ELSE IF ~IsDirAt(w, cur) THEN [ok |-> FALSE, loc |-> cur]
    ELSE IF Head(comps) = ".." THEN Walk(w, ParentOf(cur), Tail(comps))
    ELSE IF IsDirAt(w, Append(cur, Head(comps))) \/ IsFileAt(w, Append(cur, Head(comps)))
         THEN Walk(w, Append(cur, Head(comps)), Tail(comps))
         ELSE [ok |-> FALSE, loc |-> Append(cur, Head(comps))]

\* Path::canonicalize, Path::exists, Path::is_file, Path::is_dir.
Canonicalize(w, path) == Walk(w, <<>>, path)

Exists(w, path) == Canonicalize(w, path).ok

IsFile(w, path) == Exists(w, path) /\ IsFileAt(w, Canonicalize(w, path).loc)

IsDir(w, path) == Exists(w, path) /\ IsDirAt(w, Canonicalize(w, path).loc)

\* std::fs::create_dir_all: the missing directories along the path are made;
\* a file in the way makes it fail.
RECURSIVE CreateDirAll(_, _, _)
CreateDirAll(w, cur, comps) ==
    IF comps = <<>> THEN [ok |-> TRUE, world |-> w]
    ELSE IF Head(comps) = ".." THEN CreateDirAll(w, ParentOf(cur), Tail(comps))
    ELSE IF IsFileAt(w, Append(cur, Head(comps))) THEN [ok |-> FALSE, world |-> w]
    ELSE CreateDirAll([w EXCEPT !.dirs = @ \cup {Append(cur, Head(comps))}],
                      Append(cur, Head(comps)), Tail(comps))

\* File::create followed by write_all: the file the path designates is made
\* or truncated and gets the content. The directory it is in must exist.
FileCreate(w, path, text) ==
    IF ~HasFileName(path) \/ ~IsDir(w, ParentOf(path)) THEN [ok |-> FALSE, world |-> w]
    ELSE LET loc == Append(Canonicalize(w, ParentOf(path)).loc, FileName(path)) IN
         IF IsDirAt(w, loc) THEN [ok |-> FALSE, world |-> w]
         ELSE [ok |-> TRUE,
               world |-> [w EXCEPT !.files =
                             [l \in DOMAIN w.files \cup {loc} |->
                                 IF l = loc THEN text ELSE w.files[l]]]]

\* std::fs::remove_file.
RemoveFile(w, loc) ==
    [w EXCEPT !.files = [l \in DOMAIN w.files \ {loc} |-> w.files[l]]]

\* ---------------------------------------------------------- resolve_path
Resolved(path) == [ok |-> TRUE, err |-> "", path |-> path]

Refused(err) == [ok |-> FALSE, err |-> err, path |-> <<>>]

\* PathBuf::push of a requested path onto the base.
Joined(base, path) == IF path.abs THEN path.comps ELSE base \o path.comps

\* What resolve_path returns when canonicalize fails on the joined path.
Uncanonical(joined) == Resolved(joined)

ResolvePath(w, base, path) ==
    IF path.abs /\ ~StrStartsWith(path.comps, base) THEN Refused("PermissionDenied")
    ELSE IF Exists(w, Joined(base, path))
    THEN IF ~Exists(w, base) THEN Refused("IoError")
         ELSE IF ~PathStartsWith(Canonicalize(w, Joined(base, path)).loc,
                                 Canonicalize(w, base).loc)
         THEN Refused("PermissionDenied")
         ELSE Resolved(Canonicalize(w, Joined(base, path)).loc)
    ELSE Uncanonical(Joined(base, path))

\* ------------------------------------------------------- BackupManager::new
\* The .backups directory of a base directory is made when it is missing;
\* dirOk is whether the system lets it be made.
BackupManagerNew(w, base, dirOk) ==
    IF Exists(w, Append(base, ".backups"))
    THEN [ok |-> TRUE, world |-> w, backup_dir |-> Append(base, ".backups")]
    ELSE IF dirOk /\ CreateDirAll(w, <<>>, Append(base, ".backups")).ok
    THEN [ok |-> TRUE, world |-> CreateDirAll(w, <<>>, Append(base, ".backups")).world,
          backup_dir |-> Append(base, ".backups")]
    ELSE [ok |-> FALSE, world |-> w, backup_dir |-> <<>>]

\* The record of a file service call: the requested path, the base directory
\* and the clock at the call, what resolve_path gave, whether the target
\* existed before the call, whether it was a file and with what content, how
\* the call ended, and whether the call made a backup ("none" | "created" |
\* "failed").
NoCall ==
    [op |-> "none", path |-> RelPath(<<>>), base |-> <<>>, at |-> 0,
     res |-> Refused(""), existed |-> FALSE, wasFile |-> FALSE, pre |-> <<>>,
     ok |-> FALSE, err |-> "", backup |-> "none"]

\* McEdit::new: the analyzer and the current directory are made from the
\* directory the file service was made from.
McEditInit ==
    /\ current_directory = base_directory
    /\ analyzer_root = base_directory

\* FileService::new has returned Ok for the directory.
ServiceInit(w, dir) ==
    /\ world = BackupManagerNew(w, dir, TRUE).world
    /\ base_directory = dir
    /\ backup_dir = BackupManagerNew(w, dir, TRUE).backup_dir
    /\ now = 0
    /\ ops = 0
    /\ created = 0
    /\ fsLast = NoCall

\* ------------------------------------------------------------------ text
\* str::lines: the pieces between line feeds, a last empty piece dropped.
RECURSIVE SplitLines(_, _, _)
SplitLines(text, cur, acc) ==
    IF text = <<>> THEN (IF cur = <<>> THEN acc ELSE Append(acc, cur))
    ELSE IF Head(text) = "\n" THEN SplitLines(Tail(text), <<>>, Append(acc, cur))
    ELSE SplitLines(Tail(text), Append(cur, Head(text)), acc)

TextLines(text) == SplitLines(text, <<>>, <<>>)

\* join("\n") of a vector of lines.
RECURSIVE JoinLines(_)
JoinLines(ls) ==
    IF ls = <<>> THEN <<>>
    ELSE IF Len(ls) = 1 THEN ls[1]
    ELSE ls[1] \o <<"\n">> \o JoinLines(Tail(ls))

EndsWithNewline(text) == text # <<>> /\ text[Len(text)] = "\n"

\* ---------------------------------------------------------------- editor
\* The result of an operation: how it ended and the file system it leaves.
Done(w) == [ok |-> TRUE, err |-> "", world |-> w]

Failed(w, err) == [ok |-> FALSE, err |-> err, world |-> w]

\* The content of the file a path designates.
ContentAt(w, path) == w.files[Canonicalize(w, path).loc]

\* FileEditor::write_file: missing parent directories are made first.
EditorWriteFile(w, path, text) ==
    IF path # <<>> /\ ~Exists(w, ParentOf(path)) /\ ~CreateDirAll(w, <<>>, ParentOf(path)).ok
    THEN Failed(w, "IoError")
    ELSE IF path # <<>> /\ ~Exists(w, ParentOf(path))
    THEN IF FileCreate(CreateDirAll(w, <<>>, ParentOf(path)).world, path, text).ok
         THEN Done(FileCreate(CreateDirAll(w, <<>>, ParentOf(path)).world, path, text).world)
         ELSE Failed(CreateDirAll(w, <<>>, ParentOf(path)).world, "IoError")
    ELSE IF FileCreate(w, path, text).ok THEN Done(FileCreate(w, path, text).world)
    ELSE Failed(w, "IoError")

\* The opening of every other editor operation: the path exists, and reading
\* it as a file works.
EditorCannotRead(w, path) ==
    IF ~Exists(w, path) THEN "FileNotFound"
    ELSE IF ~IsFile(w, path) THEN "IoError"
    ELSE ""

EditorAppendToFile(w, path, text) ==
    IF EditorCannotRead(w, path) # "" THEN Failed(w, EditorCannotRead(w, path))
    ELSE EditorWriteFile(w, path, ContentAt(w, path) \o text)

EditorInsertLine(w, path, line_num, content) ==
    IF EditorCannotRead(w, path) # "" THEN Failed(w, EditorCannotRead(w, path))
    ELSE LET lines == TextLines(ContentAt(w, path)) IN
         IF line_num > Len(lines) THEN Failed(w, "LineOutOfRange")
         ELSE EditorWriteFile(w, path,
                 JoinLines(SubSeq(lines, 1, line_num) \o <<content>>
                           \o SubSeq(lines, line_num + 1, Len(lines))))

EditorReplaceLine(w, path, line_num, content) ==
    IF EditorCannotRead(w, path) # "" THEN Failed(w, EditorCannotRead(w, path))
    ELSE LET lines == TextLines(ContentAt(w, path)) IN
         IF line_num >= Len(lines) THEN Failed(w, "LineOutOfRange")
         ELSE EditorWriteFile(w, path,
                 JoinLines([lines EXCEPT ![line_num + 1] = content]))

EditorDeleteLine(w, path, line_num) ==
    IF EditorCannotRead(w, path) # "" THEN Failed(w, EditorCannotRead(w, path))
    ELSE LET lines == TextLines(ContentAt(w, path)) IN
         IF line_num >= Len(lines) THEN Failed(w, "LineOutOfRange")
         ELSE EditorWriteFile(w, path,
                 JoinLines(SubSeq(lines, 1, line_num)
                           \o SubSeq(lines, line_num + 2, Len(lines))))

Min(a, b) == IF a < b THEN a ELSE b

\* The text edit_region puts together from the lines before start_line, the
\* new content and the lines from effective_end on.
RegionText(lines, start_line, effective_end, new_content) ==
    LET before == IF start_line > 0
                  THEN JoinLines(SubSeq(lines, 1, start_line)) \o <<"\n">>
                  ELSE <<>>
        middle == before \o new_content
    IN  IF effective_end < Len(lines)
        THEN (IF EndsWithNewline(middle) THEN middle ELSE middle \o <<"\n">>)
             \o JoinLines(SubSeq(lines, effective_end + 1, Len(lines)))
        ELSE middle

EditorEditRegion(w, path, start_line, end_line, new_content) ==
    IF ~Exists(w, path) THEN Failed(w, "FileNotFound")
    ELSE IF start_line > end_line THEN Failed(w, "InvalidRange")
    ELSE IF ~IsFile(w, path) THEN Failed(w, "IoError")
    ELSE LET lines == TextLines(ContentAt(w, path)) IN
         IF start_line >= Len(lines) THEN Failed(w, "LineOutOfRange")
         ELSE EditorWriteFile(w, path,
                 RegionText(lines, start_line, Min(end_line, Len(lines)), new_content))

\* ---------------------------------------------------------------- backups
\* A backup file is bucket/<name>_<stamp>.bak under a backup directory: dir
\* is where that directory is, bucket the path whose hash names the bucket
\* (distinct paths are taken to hash apart), stamp the clock reading in the
\* name, mtime its modification time, text its bytes.
BackupDirAt(w, bdir) == IF Exists(w, bdir) THEN Canonicalize(w, bdir).loc ELSE bdir

\* The string that is hashed: the canonical path, or the path as it is when
\* canonicalize fails.
BucketOf(w, path) == IF Exists(w, path) THEN Canonicalize(w, path).loc ELSE path

\* The clock reading formatted into the file name (%Y%m%d_%H%M%S%.3f): the
\* clock ticks TicksPerMs times in a millisecond, the name keeps milliseconds.
Timestamp(t) == t \div TicksPerMs

GenerateBackupFilename(w, bdir, path, t) ==
    [dir |-> BackupDirAt(w, bdir), bucket |-> BucketOf(w, path),
     name |-> FileName(path), stamp |-> Timestamp(t)]

SameBackupFile(r, f) ==
    r.dir = f.dir /\ r.bucket = f.bucket /\ r.name = f.name /\ r.stamp = f.stamp

\* Sorting by modification time, newest first.
RECURSIVE NewestFirst(_)
NewestFirst(S) ==
    IF S = {} THEN <<>>
    ELSE LET m == CHOOSE r \in S : \A s \in S : s.mtime <= r.mtime
         IN  <<m>> \o NewestFirst(S \ {m})

InBucket(w, bdir, path) ==
    {r \in w.bk : r.dir = BackupDirAt(w, bdir) /\ r.bucket = BucketOf(w, path)}

\* BackupManager::list_backups.
ListBackups(w, bdir, path) ==
    IF InBucket(w, bdir, path) = {} THEN [ok |-> TRUE, err |-> "", entries |-> <<>>]
    ELSE IF ~HasFileName(path) THEN [ok |-> FALSE, err |-> "FileNotFound", entries |-> <<>>]
    ELSE [ok |-> TRUE, err |-> "",
          entries |-> NewestFirst({r \in InBucket(w, bdir, path) :
                                      IsStrPrefix(FileName(path), r.name)})]

\* BackupManager::cleanup_old_backups: everything after the first
\* MAX_BACKUPS_PER_FILE entries of the listing is removed.
MAX_BACKUPS_PER_FILE == 10

CleanupOldBackups(w, bdir, path) ==
    LET listed == ListBackups(w, bdir, path) IN
    IF ~listed.ok THEN Failed(w, listed.err)
    ELSE IF Len(listed.entries) <= MAX_BACKUPS_PER_FILE THEN Done(w)
    ELSE Done([w EXCEPT !.bk = @ \
                 {listed.entries[i] : i \in (MAX_BACKUPS_PER_FILE + 1)..Len(listed.entries)}])

\* The copy made by create_backup: File::create on the backup path replaces
\* a file of that name.
CopyToBackup(w, f, text, t) ==
    [w EXCEPT !.bk = {r \in @ : ~SameBackupFile(r, f)} \cup
        {[dir |-> f.dir, bucket |-> f.bucket, name |-> f.name, stamp |-> f.stamp,
          mtime |-> t, text |-> text]}]

\* BackupManager::create_backup at clock reading t; ioOk is whether the
\* system lets the copy be written.
CreateBackup(w, bdir, path, t, ioOk) ==
    IF ~Exists(w, path) THEN Failed(w, "FileNotFound")
    ELSE IF ~IsFile(w, path) THEN Failed(w, "FileNotFound")
    ELSE IF ~HasFileName(path) THEN Failed(w, "FileNotFound")
    ELSE IF ~ioOk THEN Failed(w, "IoError")
    ELSE CleanupOldBackups(
            CopyToBackup(w, GenerateBackupFilename(w, bdir, path, t), ContentAt(w, path), t),
            bdir, path)

\* restore_latest_backup without its write: the file is left as it is.
RestoreLatestBackupUnwritten(w, bdir, path) ==
    IF ListBackups(w, bdir, path).entries = <<>> THEN Failed(w, "NoBackupAvailable")
    ELSE Done(w)

\* BackupManager::restore_latest_backup.
RestoreLatestBackup(w, bdir, path) ==
    LET listed == ListBackups(w, bdir, path) IN
    IF ~listed.ok THEN Failed(w, listed.err)
    ELSE IF listed.entries = <<>> THEN Failed(w, "NoBackupAvailable")
    ELSE EditorWriteFile(w, path, listed.entries[1].text)

\* ----------------------------------------------------------- file service
\* What a file service call gives: how it ended, the file system it leaves,
\* whether it made a backup ("none" | "created" | "failed") and how many
\* create_backup calls returned Ok.
FsResult(r, backup, made) ==
    [ok |-> r.ok, err |-> r.err, world |-> r.world, backup |-> backup, made |-> made]

\* The guard in write_file and apply_suggestion: a backup when the resolved
\* path exists.
BackupNever(exists) == FALSE

BackupIfExists(exists) == exists

FsWriteFile(w, base, bdir, path, content, t, ioOk) ==
    LET res == ResolvePath(w, base, path) IN
    IF ~res.ok THEN FsResult(Failed(w, res.err), "none", 0)
    ELSE IF BackupIfExists(Exists(w, res.path))
    THEN LET b == CreateBackup(w, bdir, res.path, t, ioOk) IN
         IF ~b.ok THEN FsResult(b, "failed", 0)
         ELSE FsResult(EditorWriteFile(b.world, res.path, content), "created", 1)
    ELSE FsResult(EditorWriteFile(w, res.path, content), "none", 0)

\* The opening shared by the operations on an existing target: resolve_path,
\* FileNotFound when the resolved path does not exist, then create_backup.
\* go tells whether the operation goes on, with the world and target to use.
Opened(w, base, bdir, path, t, ioOk) ==
    LET res == ResolvePath(w, base, path) IN
    IF ~res.ok
    THEN [go |-> FALSE, out |-> FsResult(Failed(w, res.err), "none", 0), world |-> w, target |-> <<>>]
    ELSE IF ~Exists(w, res.path)
    THEN [go |-> FALSE, out |-> FsResult(Failed(w, "FileNotFound"), "none", 0), world |-> w, target |-> <<>>]
    ELSE LET b == CreateBackup(w, bdir, res.path, t, ioOk) IN
         IF ~b.ok
         THEN [go |-> FALSE, out |-> FsResult(b, "failed", 0), world |-> w, target |-> <<>>]
         ELSE [go |-> TRUE, out |-> FsResult(b, "created", 1), world |-> b.world, target |-> res.path]

FsAppendToFile(w, base, bdir, path, content, t, ioOk) ==
    LET o == Opened(w, base, bdir, path, t, ioOk) IN
    IF ~o.go THEN o.out
    ELSE FsResult(EditorAppendToFile(o.world, o.target, content), "created", 1)

\* create_file that goes on to back up the file it has just written.
FsCreateFileThenBackup(w, base, path, content) ==
    LET res == ResolvePath(w, base, path) IN
    IF ~res.ok THEN FsResult(Failed(w, res.err), "none", 0)
    ELSE IF Exists(w, res.path) THEN FsResult(Failed(w, "FileAlreadyExists"), "none", 0)
    ELSE IF ~EditorWriteFile(w, res.path, content).ok
    THEN FsResult(EditorWriteFile(w, res.path, content), "none", 0)
    ELSE FsResult(CreateBackup(EditorWriteFile(w, res.path, content).world,
                               Append(base, ".backups"), res.path, 0, TRUE),
                  "created", 1)


\* FileService::read_file: nothing is written.
FsReadFile(w, base, path) ==
    LET res == ResolvePath(w, base, path) IN
    IF ~res.ok THEN FsResult(Failed(w, res.err), "none", 0)
    ELSE IF ~Exists(w, res.path) THEN FsResult(Failed(w, "FileNotFound"), "none", 0)
    ELSE IF ~IsFile(w, res.path) THEN FsResult(Failed(w, "IoError"), "none", 0)
    ELSE FsResult(Done(w), "none", 0)


FsCreateFile(w, base, path, content) ==
    LET res == ResolvePath(w, base, path) IN
    IF ~res.ok THEN FsResult(Failed(w, res.err), "none", 0)
    ELSE IF Exists(w, res.path) THEN FsResult(Failed(w, "FileAlreadyExists"), "none", 0)
    ELSE FsResult(EditorWriteFile(w, res.path, content), "none", 0)

FsInsertLine(w, base, bdir, path, line_num, content, t, ioOk) ==
    LET o == Opened(w, base, bdir, path, t, ioOk) IN
    IF ~o.go THEN o.out
    ELSE FsResult(EditorInsertLine(o.world, o.target, line_num, content), "created", 1)

FsReplaceLine(w, base, bdir, path, line_num, content, t, ioOk) ==
    LET o == Opened(w, base, bdir, path, t, ioOk) IN
    IF ~o.go THEN o.out
    ELSE FsResult(EditorReplaceLine(o.world, o.target, line_num, content), "created", 1)

FsDeleteLine(w, base, bdir, path, line_num, t, ioOk) ==
    LET o == Opened(w, base, bdir, path, t, ioOk) IN
    IF ~o.go THEN o.out
    ELSE FsResult(EditorDeleteLine(o.world, o.target, line_num), "created", 1)

FsEditRegion(w, base, bdir, path, start_line, end_line, new_content, t, ioOk) ==
    LET o == Opened(w, base, bdir, path, t, ioOk) IN
    IF ~o.go THEN o.out
    ELSE FsResult(EditorEditRegion(o.world, o.target, start_line, end_line, new_content),
                  "created", 1)

FsDeleteFile(w, base, bdir, path, t, ioOk) ==
    LET o == Opened(w, base, bdir, path, t, ioOk) IN
    IF ~o.go THEN o.out
    ELSE IF IsFile(o.world, o.target)
    THEN FsResult(Done(RemoveFile(o.world, Canonicalize(o.world, o.target).loc)), "created", 1)
    ELSE FsResult(Failed(o.world, "NotAFile"), "created", 1)

\* std::fs::rename of a file onto a path that does not exist.
Rename(w, from, to) ==
    IF ~HasFileName(to) \/ ~IsDir(w, ParentOf(to)) THEN Failed(w, "IoError")
    ELSE LET src == Canonicalize(w, from).loc
             dst == Append(Canonicalize(w, ParentOf(to)).loc, FileName(to))
         IN  Done([w EXCEPT !.files =
                     [l \in (DOMAIN w.files \ {src}) \cup {dst} |->
                         IF l = dst THEN w.files[src] ELSE w.files[l]]])

\* rename_file without the test of the destination.
FsRenameFileOntoAnything(w, base, bdir, from_path, to_path, t, ioOk) ==
    LET from == ResolvePath(w, base, from_path)
        to == ResolvePath(w, base, to_path)
    IN  IF ~from.ok THEN FsResult(Failed(w, from.err), "none", 0)
        ELSE IF ~to.ok THEN FsResult(Failed(w, to.err), "none", 0)
        ELSE IF ~Exists(w, from.path) THEN FsResult(Failed(w, "FileNotFound"), "none", 0)
        ELSE LET b == CreateBackup(w, bdir, from.path, t, ioOk) IN
             IF ~b.ok THEN FsResult(b, "failed", 0)
             ELSE FsResult(Rename(b.world, from.path, to.path), "created", 1)


FsRenameFile(w, base, bdir, from_path, to_path, t, ioOk) ==
    LET from == ResolvePath(w, base, from_path)
        to == ResolvePath(w, base, to_path)
    IN  IF ~from.ok THEN FsResult(Failed(w, from.err), "none", 0)
        ELSE IF ~to.ok THEN FsResult(Failed(w, to.err), "none", 0)
        ELSE IF ~Exists(w, from.path) THEN FsResult(Failed(w, "FileNotFound"), "none", 0)
        ELSE IF Exists(w, to.path) THEN FsResult(Failed(w, "FileAlreadyExists"), "none", 0)
        ELSE LET b == CreateBackup(w, bdir, from.path, t, ioOk) IN
             IF ~b.ok THEN FsResult(b, "failed", 0)
             ELSE IF to.path # <<>> /\ ~Exists(b.world, ParentOf(to.path))
             THEN LET d == CreateDirAll(b.world, <<>>, ParentOf(to.path)) IN
                  IF ~d.ok THEN FsResult(Failed(d.world, "IoError"), "created", 1)
                  ELSE FsResult(Rename(d.world, from.path, to.path), "created", 1)
             ELSE FsResult(Rename(b.world, from.path, to.path), "created", 1)

FsRestoreBackup(w, base, bdir, path) ==
    LET res == ResolvePath(w, base, path) IN
    IF ~res.ok THEN FsResult(Failed(w, res.err), "none", 0)
    ELSE FsResult(RestoreLatestBackup(w, bdir, res.path), "none", 0)

FsListBackups(w, base, bdir, path) ==
    LET res == ResolvePath(w, base, path) IN
    IF ~res.ok THEN [ok |-> FALSE, err |-> res.err, entries |-> <<>>]
    ELSE ListBackups(w, bdir, res.path)

\* A suggestion as apply_suggestion reads it: the type, the content when
\* there is one, the edits when there are some, and what the suggestion has
\* under "overwrite": nothing ("absent"), the booleans "true" or "false", or a
\* value that is no boolean ("other").
Suggestion(type, hasContent, content, hasEdits, edits, overwrite) ==
    [type |-> type, hasContent |-> hasContent, content |-> content,
     hasEdits |-> hasEdits, edits |-> edits, overwrite |-> overwrite]

OverwriteValues == {"absent", "false", "true", "other"}

\* The overwrite flag taken whatever the suggestion says.
OverwriteAnyway(sug) == TRUE

\* get("overwrite").and_then(as_bool).unwrap_or(false).
Overwrite(sug) == sug.overwrite = "true"

EditOp(action, line, end, content) ==
    [action |-> action, line |-> line, end |-> end, content |-> content]

\* A line number as an edit of a suggestion gives it: a JSON value that is an
\* unsigned integer ("u64"), a negative number, a string, or nothing.
JsonNumber(n) == [kind |-> "u64", n |-> n]

JsonOther(kind) == [kind |-> kind, n |-> 0]

\* get(..).and_then(|v| v.as_u64()).unwrap_or(0)
AsU64OrZero(v) == IF v.kind = "u64" THEN v.n ELSE 0

\* An edit as the suggestion holds it, and as the loop over the edits reads
\* it: "line" for insert, replace and delete, "start" and "end" for region.
JsonEdit(action, line, start, end, content) ==
    [action |-> action, line |-> line, start |-> start, end |-> end, content |-> content]

NoJsonEdit == JsonEdit("none", JsonOther("absent"), JsonOther("absent"),
                       JsonOther("absent"), <<>>)

ReadEdit(edit) ==
    EditOp(edit.action,
           IF edit.action = "region" THEN AsU64OrZero(edit.start) ELSE AsU64OrZero(edit.line),
           AsU64OrZero(edit.end), edit.content)

\* One edit of an "edit" suggestion, made by the editor directly.
ApplyEdit(w, target, e) ==
    CASE e.action = "insert" -> EditorInsertLine(w, target, e.line, e.content)
      [] e.action = "replace" -> EditorReplaceLine(w, target, e.line, e.content)
      [] e.action = "delete" -> EditorDeleteLine(w, target, e.line)
      [] e.action = "region" -> EditorEditRegion(w, target, e.line, e.end, e.content)
      [] OTHER -> Done(w)

EditActions == {"insert", "replace", "delete", "region"}

\* What the loop pushes on `results` after an edit that returned: "success"
\* for the four actions, "error" for any other action.
EditOutcome(e) ==
    [action |-> e.action,
     status |-> IF e.action \in EditActions THEN "success" ELSE "error"]

\* The loop run from the last edit to the first.
RECURSIVE ApplyEditsLastFirst(_, _, _, _)
ApplyEditsLastFirst(w, target, edits, results) ==
    IF edits = <<>>
    THEN [ok |-> TRUE, err |-> "", world |-> w, results |-> results]
    ELSE LET e == edits[Len(edits)] IN
         IF ~ApplyEdit(w, target, e).ok
         THEN [ok |-> FALSE, err |-> ApplyEdit(w, target, e).err,
               world |-> ApplyEdit(w, target, e).world, results |-> <<>>]
         ELSE ApplyEditsLastFirst(ApplyEdit(w, target, e).world, target,
                                  SubSeq(edits, 1, Len(edits) - 1),
                                  Append(results, EditOutcome(e)))

\* The loop over the edits, from the results pushed so far. The `?` on the
\* first edit that fails returns its error from apply_suggestion: the edits
\* behind it are not made and `results` is dropped.
RECURSIVE ApplyEditsFrom(_, _, _, _)
ApplyEditsFrom(w, target, edits, results) ==
    IF edits = <<>>
    THEN [ok |-> TRUE, err |-> "", world |-> w, results |-> results]
    ELSE IF ~ApplyEdit(w, target, Head(edits)).ok
    THEN [ok |-> FALSE, err |-> ApplyEdit(w, target, Head(edits)).err,
          world |-> ApplyEdit(w, target, Head(edits)).world, results |-> <<>>]
    ELSE ApplyEditsFrom(ApplyEdit(w, target, Head(edits)).world, target, Tail(edits),
                        Append(results, EditOutcome(Head(edits))))

\* The edits in sequence; the first one that fails ends the call.
ApplyEdits(w, target, edits) == ApplyEditsFrom(w, target, edits, <<>>)

\* The reply to an "edit" suggestion: FsResult with the `results` array.
EditsResult(r, backup, made) ==
    [ok |-> r.ok, err |-> r.err, world |-> r.world, backup |-> backup, made |-> made,
     results |-> r.results]

\* FileService::apply_suggestion. A "create" that overwrites calls
\* create_backup a second time, one clock reading later.
FsApplySuggestion(w, base, bdir, path, sug, t, ioOk) ==
    LET res == ResolvePath(w, base, path) IN
    IF ~res.ok THEN FsResult(Failed(w, res.err), "none", 0)
    ELSE
    LET existed == BackupIfExists(Exists(w, res.path))
        first == IF existed THEN CreateBackup(w, bdir, res.path, t, ioOk) ELSE Done(w)
        backup == IF existed THEN "created" ELSE "none"
        made == IF existed THEN 1 ELSE 0
    IN  IF ~first.ok THEN FsResult(first, "failed", 0)
        ELSE CASE sug.type = "replace" ->
                    IF sug.hasContent
                    THEN FsResult(EditorWriteFile(first.world, res.path, sug.content), backup, made)
                    ELSE FsResult(Failed(first.world, "MissingContent"), backup, made)
               [] sug.type = "edit" ->
                    IF sug.hasEdits
                    THEN EditsResult(ApplyEdits(first.world, res.path, sug.edits), backup, made)
                    ELSE FsResult(Failed(first.world, "MissingEdits"), backup, made)
               [] sug.type = "create" ->
                    IF ~sug.hasContent
                    THEN FsResult(Failed(first.world, "MissingContent"), backup, made)
                    ELSE IF ~Exists(first.world, res.path)
                    THEN FsResult(EditorWriteFile(first.world, res.path, sug.content), backup, made)
                    ELSE IF ~Overwrite(sug)
                    THEN FsResult(Failed(first.world, "FileAlreadyExists"), backup, made)
                    ELSE LET second == CreateBackup(first.world, bdir, res.path, t + 1, ioOk) IN
                         IF ~second.ok THEN FsResult(second, "failed", made)
                         ELSE FsResult(EditorWriteFile(second.world, res.path, sug.content),
                                       "created", made + 1)
               [] OTHER -> FsResult(Failed(first.world, "UnknownType"), backup, made)

\* ------------------------------------------------------------------ diff
\* TextDiff::from_lines takes a text apart into its lines, each with the
\* newline that ends it; the text after the last newline, if any, is a line
\* without one.
RECURSIVE LinesWithEndings(_, _, _)
LinesWithEndings(text, cur, acc) ==
    IF text = <<>> THEN (IF cur = <<>> THEN acc ELSE Append(acc, cur))
    ELSE IF Head(text) = "\n"
    THEN LinesWithEndings(Tail(text), <<>>, Append(acc, Append(cur, "\n")))
    ELSE LinesWithEndings(Tail(text), Append(cur, Head(text)), acc)

FromLines(text) == LinesWithEndings(text, <<>>, <<>>)

\* similar::Change: its tag and the line it is about.
Change(tag, value) == [tag |-> tag, value |-> value]

Max(a, b) == IF a > b THEN a ELSE b

\* The most lines an alignment of two line sequences can leave Equal.
RECURSIVE Lcs(_, _)
Lcs(o, m) ==
    IF o = <<>> \/ m = <<>> THEN 0
    ELSE IF Head(o) = Head(m) THEN 1 + Lcs(Tail(o), Tail(m))
    ELSE Max(Lcs(Tail(o), m), Lcs(o, Tail(m)))

\* diff.iter_all_changes(): the changes that take the original into the
\* modified lines with as few Delete and Insert as can be. Which of several
\* such alignments the library picks is left open.
RECURSIVE Alignments(_, _)
Alignments(o, m) ==
    IF o = <<>> /\ m = <<>> THEN {<<>>}
    ELSE (IF o # <<>> /\ m # <<>> /\ Head(o) = Head(m)
          THEN {<<Change("equal", Head(o))>> \o s : s \in Alignments(Tail(o), Tail(m))}
          ELSE {})
         \cup (IF o # <<>> /\ Lcs(Tail(o), m) = Lcs(o, m)
               THEN {<<Change("delete", Head(o))>> \o s : s \in Alignments(Tail(o), m)}
               ELSE {})
         \cup (IF m # <<>> /\ Lcs(o, Tail(m)) = Lcs(o, m)
               THEN {<<Change("insert", Head(m))>> \o s : s \in Alignments(o, Tail(m))}
               ELSE {})

\* format!(" {}", change), format!("-{}", change), format!("+{}", change).
HunkLine(sign, change) == [sign |-> sign, text |-> change.value]

\* The locals of generate_unified_diff before its loop; `hunks` is what has
\* been pushed on unified_diff after the two header lines.
DiffStart ==
    [line_num_orig |-> 0, line_num_mod |-> 0,
     hunk_start_orig |-> 0, hunk_size_orig |-> 0,
     hunk_start_mod |-> 0, hunk_size_mod |-> 0,
     hunk_lines |-> <<>>, in_hunk |-> FALSE, hunks |-> <<>>]

\* The `match change.tag()` of the loop.
Tagged(st, change) ==
    CASE change.tag = "equal" ->
            IF st.in_hunk
            THEN [st EXCEPT !.hunk_lines = Append(@, HunkLine(" ", change)),
                            !.hunk_size_orig = @ + 1, !.hunk_size_mod = @ + 1,
                            !.line_num_orig = @ + 1, !.line_num_mod = @ + 1]
            ELSE [st EXCEPT !.hunk_start_orig = st.line_num_orig,
                            !.hunk_start_mod = st.line_num_mod,
                            !.hunk_lines = <<HunkLine(" ", change)>>,
                            !.hunk_size_orig = 1, !.hunk_size_mod = 1,
                            !.in_hunk = TRUE,
                            !.line_num_orig = @ + 1, !.line_num_mod = @ + 1]
      [] change.tag = "delete" ->
            [st EXCEPT !.hunk_start_orig = IF st.in_hunk THEN @ ELSE st.line_num_orig,
                       !.hunk_start_mod = IF st.in_hunk THEN @ ELSE st.line_num_mod,
                       !.in_hunk = TRUE,
                       !.hunk_lines = Append(@, HunkLine("-", change)),
                       !.hunk_size_orig = @ + 1, !.line_num_orig = @ + 1]
      [] OTHER ->
            [st EXCEPT !.hunk_start_orig = IF st.in_hunk THEN @ ELSE st.line_num_orig,
                       !.hunk_start_mod = IF st.in_hunk THEN @ ELSE st.line_num_mod,
                       !.in_hunk = TRUE,
                       !.hunk_lines = Append(@, HunkLine("+", change)),
                       !.hunk_size_mod = @ + 1, !.line_num_mod = @ + 1]

HasChangesAlways(hunk_lines) == TRUE

\* hunk_lines.iter().any(|line| line.starts_with('+') || line.starts_with('-'))
HasChanges(hunk_lines) ==
    \E i \in 1..Len(hunk_lines) : hunk_lines[i].sign \in {"+", "-"}

\* The "@@ -o,lo +m,lm @@" header and the lines pushed under it.
Hunk(st) ==
    [orig_start |-> st.hunk_start_orig + 1, orig_size |-> st.hunk_size_orig,
     mod_start |-> st.hunk_start_mod + 1, mod_size |-> st.hunk_size_mod,
     lines |-> st.hunk_lines]

\* A hunk is flushed once it holds more lines than this.
FlushThreshold == 3

\* A flush that waits for one line more.
FlushedLate(st) ==
    IF st.in_hunk /\ Len(st.hunk_lines) > FlushThreshold + 1
    THEN [st EXCEPT !.hunks = IF HasChanges(st.hunk_lines) THEN Append(@, Hunk(st)) ELSE @,
                    !.in_hunk = FALSE,
                    !.hunk_lines = <<>>]
    ELSE st

\* The flush at the end of the loop body: the hunk is pushed if it has a
\* change, and in either case the hunk is over.
Flushed(st) ==
    IF st.in_hunk /\ Len(st.hunk_lines) > FlushThreshold
    THEN [st EXCEPT !.hunks = IF HasChanges(st.hunk_lines) THEN Append(@, Hunk(st)) ELSE @,
                    !.in_hunk = FALSE,
                    !.hunk_lines = <<>>]
    ELSE st

\* `for change in diff.iter_all_changes()`
RECURSIVE AllChanges(_, _)
AllChanges(changes, st) ==
    IF changes = <<>> THEN st
    ELSE AllChanges(Tail(changes), Flushed(Tagged(st, Head(changes))))

\* The hunk left at the end of the loop is forgotten.
FinalFlushForgotten(st) == st.hunks

\* "Flush any remaining hunk"
FinalFlush(st) ==
    IF st.in_hunk /\ st.hunk_lines # <<>> /\ HasChanges(st.hunk_lines)
    THEN Append(st.hunks, Hunk(st))
    ELSE st.hunks

\* DiffGenerator::generate_unified_diff, from the changes of the alignment:
\* the hunks that follow the header lines. It always returns Ok.
GenerateUnifiedDiff(changes) == FinalFlush(AllChanges(changes, DiffStart))

\* No call of generate_unified_diff yet.
NoDiff ==
    [done |-> FALSE, original |-> <<>>, modified |-> <<>>, changes |-> <<>>,
     hunks |-> <<>>]


\* ---------------------------------------------------------- lines as text
\* parse_json_message on the characters of a line. The lines are made of the
\* characters that the replacements touch: the quote, the backslash, the tab
\* and one letter, t. A string literal stands for the JSON text of a Message:
\* the decode below reads optional white space, a quote, the characters of
\* the string with the escapes \" \\ and \t, a quote, optional white space.
\* As in JSON a tab as such may stand between tokens but not inside a string.
\* The empty literal stands for JSON that is a value but no Message.
LineChars == {"\"", "\\", "\t", "t"}

WhiteSpace == {" ", "\t"}

\* str::trim, on both ends.
RECURSIVE TrimStart(_)
TrimStart(text) ==
    IF text # <<>> /\ Head(text) \in WhiteSpace THEN TrimStart(Tail(text)) ELSE text

RECURSIVE TrimEnd(_)
TrimEnd(text) ==
    IF text # <<>> /\ text[Len(text)] \in WhiteSpace
    THEN TrimEnd(SubSeq(text, 1, Len(text) - 1)) ELSE text

Trim(text) == TrimEnd(TrimStart(text))

\* replace(['\n', '\r', '\t'], " ")
ReplaceControl(text) == [i \in 1..Len(text) |-> IF text[i] = "\t" THEN " " ELSE text[i]]

\* str::contains and str::replace for a pattern of two characters.
Contains(text, a, b) == \E i \in 1..(Len(text) - 1) : text[i] = a /\ text[i + 1] = b

RECURSIVE Replace(_, _, _, _)
Replace(text, a, b, with) ==
    IF Len(text) < 2 THEN text
    ELSE IF text[1] = a /\ text[2] = b
    THEN <<with>> \o Replace(SubSeq(text, 3, Len(text)), a, b, with)
    ELSE <<text[1]>> \o Replace(Tail(text), a, b, with)

\* The replacements parse_json_message makes before it decodes.
Normalize(text) ==
    LET processed_json == ReplaceControl(text) IN
    IF Contains(processed_json, "\\", "\\") \/ Contains(processed_json, "\\", "\"")
    THEN Replace(Replace(processed_json, "\\", "\\", "\\"), "\\", "\"", "\"")
    ELSE processed_json

\* The characters of a string literal from behind its opening quote.
RECURSIVE StringBody(_, _)
StringBody(text, acc) ==
    IF text = <<>> THEN [ok |-> FALSE, value |-> <<>>, rest |-> <<>>]
    ELSE IF Head(text) = "\"" THEN [ok |-> TRUE, value |-> acc, rest |-> Tail(text)]
    ELSE IF Head(text) = "\t" THEN [ok |-> FALSE, value |-> <<>>, rest |-> <<>>]
    ELSE IF Head(text) = "\\"
    THEN IF Len(text) < 2 THEN [ok |-> FALSE, value |-> <<>>, rest |-> <<>>]
         ELSE IF text[2] = "t" THEN StringBody(SubSeq(text, 3, Len(text)), Append(acc, "\t"))
         ELSE IF text[2] \in {"\"", "\\"}
         THEN StringBody(SubSeq(text, 3, Len(text)), Append(acc, text[2]))
         ELSE [ok |-> FALSE, value |-> <<>>, rest |-> <<>>]
    ELSE StringBody(Tail(text), Append(acc, Head(text)))

\* serde_json::from_str::<Value>
DecodeValue(text) ==
    LET t == TrimStart(text) IN
    IF t = <<>> \/ Head(t) # "\"" THEN [ok |-> FALSE, value |-> <<>>]
    ELSE IF StringBody(Tail(t), <<>>).ok /\ TrimStart(StringBody(Tail(t), <<>>).rest) = <<>>
    THEN [ok |-> TRUE, value |-> StringBody(Tail(t), <<>>).value]
    ELSE [ok |-> FALSE, value |-> <<>>]

\* serde_json::from_str::<Message>
DecodeMessage(text) ==
    IF DecodeValue(text).ok /\ DecodeValue(text).value # <<>> THEN DecodeValue(text)
    ELSE [ok |-> FALSE, value |-> <<>>]

\* The literal of the last resort: the text of a Message and one closing
\* character too many.
FallbackText == <<"\"", "t", "\"", "\"">>

\* A decode that looks at the line as it was received first.
ProcessedStrictFirst(json_string) ==
    IF DecodeMessage(json_string).ok THEN json_string ELSE Normalize(json_string)

\* The text parse_json_message decodes.
Processed(json_string) == Normalize(json_string)

\* parse_json_message
ParseText(json_string) ==
    IF json_string = <<>> THEN [ok |-> FALSE, value |-> <<>>]
    ELSE IF DecodeMessage(Processed(json_string)).ok
    THEN DecodeMessage(Processed(json_string))
    ELSE IF DecodeValue(Processed(json_string)).ok THEN [ok |-> FALSE, value |-> <<>>]
    ELSE IF DecodeMessage(FallbackText).ok THEN DecodeMessage(FallbackText)
    ELSE [ok |-> FALSE, value |-> <<>>]


\* --------------------------------------------------------------- actions
\* No line has been read.
NotParsed == [text |-> <<>>, done |-> FALSE, result |-> [ok |-> FALSE, value |-> <<>>]]

\* StdioTransport::send among concurrent callers: who holds the guard of
\* stdout, where each caller is in send and with which message, how many sends
\* have begun, the pieces written to stdout, and the messages whose send
\* returned an error.
Senders == {"a", "b"}

NoOwner == "nobody"

NotSending ==
    [owner |-> NoOwner, at |-> [s \in Senders |-> "idle"], msg |-> [s \in Senders |-> 0],
     begun |-> 0, out |-> <<>>, failed |-> {}]

\* launch_mcp followed step by step: the request the loop has in hand, how
\* many lines the client has written, and the events so far (a request
\* taken, a response written, a request done with).
NotServing == [req |-> NoMessage, read |-> 0, events |-> <<>>]

\* McpHandler::new and StdioTransport::new have run.
ProtocolInit ==
    /\ readerState = "reading"
    /\ subscribed = FALSE
    /\ queue = <<>>
    /\ pc = "start"
    /\ initialized = FALSE
    /\ last = NothingTaken
    /\ probeRejected = FALSE

Init ==
    /\ ProtocolInit
    /\ diffed = NoDiff
    /\ serving = NotServing
    /\ sending = NotSending
    /\ parsed = NotParsed
    /\ ServiceInit(ProjectWorld, ProjectDir)
    /\ McEditInit

\* The stream of launch_mcp is there from transport.receive() until
\* launch_mcp returns.
Receiving == subscribed /\ pc = "loop"

\* The spawned task reads one line, parses it and publishes the result. The
\* task is followed until it has overwritten one item the loop had not taken.
ReadLine ==
    /\ readerState = "reading"
    /\ ~Lagging(queue)
    /\ \E line \in Lines : queue' = Publish(queue, ParseJsonMessage(line), Receiving)
    /\ UNCHANGED <<readerState, subscribed, pc, initialized, last, probeRejected, fsVars, diffed, serving, sending, parsed, mcVars>>

\* read_line returns Ok(0): the task ends.
ReadEof ==
    /\ readerState = "reading"
    /\ readerState' = "stopped"
    /\ UNCHANGED <<subscribed, queue, pc, initialized, last, probeRejected, fsVars, diffed, serving, sending, parsed, mcVars>>

\* read_line returns Err: an Error::Io item is published and the task ends.
ReadError ==
    /\ readerState = "reading"
    /\ ~Lagging(queue)
    /\ readerState' = "stopped"
    /\ queue' = Publish(queue, ErrItem, Receiving)
    /\ UNCHANGED <<subscribed, pc, initialized, last, probeRejected, fsVars, diffed, serving, sending, parsed, mcVars>>

\* launch_mcp up to its loop: subscribe, then send the "ready" log message.
Launch ==
    /\ pc = "start"
    /\ subscribed' = TRUE
    /\ \E sendOk \in BOOLEAN :
         LET lg == Send(LogNotification, sendOk) IN
         /\ pc' = AfterSend(lg.ok)
         /\ last' = [NothingTaken EXCEPT !.written = lg.written, !.sendFailed = ~lg.ok]
    /\ UNCHANGED <<readerState, queue, initialized, probeRejected, fsVars, diffed, serving, sending, parsed, mcVars>>

\* A loop that takes the next item while a request is still in hand.
TakingWhileServing ==
    pc \in {"loop", "taken", "logged", "failed"} /\ queue # <<>> /\ ~Lagging(queue)


Taking == pc = "loop" /\ queue # <<>> /\ ~Lagging(queue)

\* The request arm, method "initialize".
TakeInitialize ==
    /\ Taking
    /\ Head(queue).ok /\ Head(queue).msg.kind = "request"
    /\ Head(queue).msg.method = "initialize"
    /\ \E logOk, sendOk \in BOOLEAN :
         LET req == Head(queue).msg
             lg == LogBoth(logOk)
             h == HandleInitialize(req.id, sendOk)
         IN  IF ~lg.ok
             THEN /\ pc' = AfterSend(FALSE)
                  /\ initialized' = initialized
                  /\ last' = Outcome("request", Head(queue), initialized, <<>>,
                                     FALSE, FALSE, FALSE, TRUE)
             ELSE /\ pc' = "loop"
                  /\ initialized' = InitializedAfterInitialize(h.ok)
                  /\ last' = Outcome("request", Head(queue), initialized,
                                     lg.written \o h.written, FALSE, FALSE, FALSE, ~h.ok)
    /\ queue' = Tail(queue)
    /\ UNCHANGED <<readerState, subscribed, probeRejected, fsVars, diffed, serving, sending, parsed, mcVars>>

\* The request arm, any other method, before initialization.
TakeUninitialized ==
    /\ Taking
    /\ Head(queue).ok /\ Head(queue).msg.kind = "request"
    /\ Head(queue).msg.method # "initialize"
    /\ MustReject(initialized)
    /\ \E logOk, sendOk \in BOOLEAN :
         LET req == Head(queue).msg
             lg == LogBoth(logOk)
             e == SendErrorResponse(req.id, "InvalidRequest", sendOk)
         IN  IF ~lg.ok
             THEN /\ pc' = AfterSend(FALSE)
                  /\ probeRejected' = probeRejected
                  /\ last' = Outcome("request", Head(queue), initialized, <<>>,
                                     FALSE, FALSE, FALSE, TRUE)
             ELSE /\ pc' = AfterSend(e.ok)
                  /\ probeRejected' = (probeRejected \/ (e.ok /\ req = ProbeRequest))
                  /\ last' = Outcome("request", Head(queue), initialized,
                                     lg.written \o e.written, FALSE, FALSE, FALSE, ~e.ok)
    /\ queue' = Tail(queue)
    /\ UNCHANGED <<readerState, subscribed, initialized, fsVars, diffed, serving, sending, parsed, mcVars>>

\* The request arm, any other method: handle_request, and InternalError for
\* the failure it returns.
TakeRouted ==
    /\ Taking
    /\ Head(queue).ok /\ Head(queue).msg.kind = "request"
    /\ Head(queue).msg.method # "initialize"
    /\ ~MustReject(initialized)
    /\ \E logOk, sendOk, errSendOk, engineOk \in BOOLEAN :
         LET req == Head(queue).msg
             lg == LogBoth(logOk)
             h == HandleRequest(req, sendOk, engineOk)
             e == SendErrorResponse(req.id, "InternalError", errSendOk)
         IN  IF ~lg.ok
             THEN /\ pc' = AfterSend(FALSE)
                  /\ last' = Outcome("request", Head(queue), initialized, <<>>,
                                     FALSE, FALSE, FALSE, TRUE)
             ELSE IF h.send.ok
             THEN /\ pc' = "loop"
                  /\ last' = Outcome("request", Head(queue), initialized,
                                     lg.written \o h.send.written,
                                     TRUE, FALSE, h.engine, FALSE)
             ELSE /\ pc' = AfterSend(e.ok)
                  /\ last' = Outcome("request", Head(queue), initialized,
                                     lg.written \o h.send.written \o e.written,
                                     TRUE, TRUE, h.engine, TRUE)
    /\ queue' = Tail(queue)
    /\ UNCHANGED <<readerState, subscribed, initialized, probeRejected, fsVars, diffed, serving, sending, parsed, mcVars>>

\* A notification or a response that is logged and answered as a request of
\* an unknown method is.
LoggedAndAnswered(item, logOk) ==
    [ok |-> logOk,
     written |-> IF logOk THEN <<LogNotification, ErrorResponse(item.msg.id, "MethodNotFound")>>
                 ELSE <<>>]

\* What the Notification arm and the Response arm do with the item: one
\* log_both, whose error is returned.
LoggedOnly(item, logOk) == LogBoth(logOk)

\* The Notification arm and the Response arm: log_both only.
TakeNotification ==
    /\ Taking
    /\ Head(queue).ok /\ Head(queue).msg.kind = "notification"
    /\ \E logOk \in BOOLEAN :
         LET lg == LoggedOnly(Head(queue), logOk) IN
         /\ pc' = AfterSend(lg.ok)
         /\ last' = Outcome("notification", Head(queue), initialized, lg.written,
                            FALSE, FALSE, FALSE, ~lg.ok)
    /\ queue' = Tail(queue)
    /\ UNCHANGED <<readerState, subscribed, initialized, probeRejected, fsVars, diffed, serving, sending, parsed, mcVars>>

TakeResponse ==
    /\ Taking
    /\ Head(queue).ok /\ Head(queue).msg.kind = "response"
    /\ \E logOk \in BOOLEAN :
         LET lg == LoggedOnly(Head(queue), logOk) IN
         /\ pc' = AfterSend(lg.ok)
         /\ last' = Outcome("response", Head(queue), initialized, lg.written,
                            FALSE, FALSE, FALSE, ~lg.ok)
    /\ queue' = Tail(queue)
    /\ UNCHANGED <<readerState, subscribed, initialized, probeRejected, fsVars, diffed, serving, sending, parsed, mcVars>>

\* The Err(e) arm.
TakeError ==
    /\ Taking
    /\ ~Head(queue).ok
    /\ pc' = AfterReceiveError
    /\ last' = [Outcome("error", Head(queue), initialized, <<>>,
                        FALSE, FALSE, FALSE, FALSE) EXCEPT !.afterError = TRUE]
    /\ queue' = Tail(queue)
    /\ UNCHANGED <<readerState, subscribed, initialized, probeRejected, fsVars, diffed, serving, sending, parsed, mcVars>>

\* Whether a Sender outlives the reader task: McEdit::launch_mcp holds the one
\* StdioTransport::new returns in `_sender` until McpHandler::launch_mcp has
\* returned.
SenderKept == TRUE

\* recv returns Err(RecvError::Closed): nothing is left to take and every
\* Sender has been dropped.
ChannelClosed == queue = <<>> /\ readerState = "stopped" /\ ~SenderKept

\* rx.recv() returns Err, Lagged or Closed: `Err(_) => None` ends the stream,
\* `while let Some(..)` ends with it and launch_mcp returns Ok(()), dropping
\* the receiver and what it had not taken.
StreamEnds ==
    /\ pc = "loop"
    /\ Lagging(queue) \/ ChannelClosed
    /\ pc' = "returned_ok"
    /\ subscribed' = FALSE
    /\ queue' = <<>>
    /\ UNCHANGED <<readerState, initialized, last, probeRejected, fsVars, diffed, serving, sending, parsed, mcVars>>

Next ==
    \/ ReadLine
    \/ ReadEof
    \/ ReadError
    \/ Launch
    \/ TakeInitialize
    \/ TakeUninitialized
    \/ TakeRouted
    \/ TakeNotification
    \/ TakeResponse
    \/ TakeError
    \/ StreamEnds

Spec == Init /\ [][Next]_vars

\* One step of launch_mcp: the runtime polls the serving loop whenever it can
\* go on.
LoopStep ==
    \/ Launch
    \/ TakeInitialize
    \/ TakeUninitialized
    \/ TakeRouted
    \/ TakeNotification
    \/ TakeResponse
    \/ TakeError
    \/ StreamEnds

\* Spec with a serving loop that is not held up for ever. Nothing is assumed
\* of the reader: whether and when a line or the end of input comes is up to
\* the client.
SpecLive == Spec /\ WF_vars(LoopStep)

\* ------------------------------------------------ file service: directory
\* FileService::change_directory: the base directory is replaced before the
\* new BackupManager is made, and stays replaced when making it fails.
FsChangeDirectory(w, base, bdir, dir, dirOk) ==
    IF ~Exists(w, dir)
    THEN [ok |-> FALSE, err |-> "InvalidPath", world |-> w, base |-> base, backup_dir |-> bdir]
    ELSE IF BackupManagerNew(w, dir, dirOk).ok
    THEN [ok |-> TRUE, err |-> "", world |-> BackupManagerNew(w, dir, dirOk).world,
          base |-> dir, backup_dir |-> BackupManagerNew(w, dir, dirOk).backup_dir]
    ELSE [ok |-> FALSE, err |-> "DirectoryCreationFailed", world |-> w,
          base |-> dir, backup_dir |-> bdir]

\* Directories asked for: the project, one below it, the project spelled
\* with "..", and one that does not exist.
DirsTried == {<<"p">>, <<"p", "d">>, <<"p", "d", "..">>, <<"nowhere">>}

ChangeDirectory ==
    /\ ops < MaxOps
    /\ \E dir \in DirsTried, dirOk \in BOOLEAN :
         LET r == FsChangeDirectory(world, base_directory, backup_dir, dir, dirOk) IN
         /\ world' = r.world
         /\ base_directory' = r.base
         /\ backup_dir' = r.backup_dir
         /\ fsLast' = [NoCall EXCEPT !.op = "change_directory", !.path = AbsPath(dir),
                                     !.base = base_directory, !.at = now,
                                     !.ok = r.ok, !.err = r.err]
    /\ ops' = ops + 1
    /\ UNCHANGED <<now, created, protoVars, diffed, serving, sending, parsed, mcVars>>

\* ------------------------------------------------------------ SpecResolve
\* Trees around the project: /etc with or without passwd, and /pq, whose
\* name begins with the name of the project, with or without a file in it.
OutsideDirs == {<<"etc">>, <<"pq">>}

OutsideFiles == {<<"etc", "passwd">>, <<"pq", "s">>}

TreeWith(moreDirs, moreFiles) ==
    [dirs |-> ProjectWorld.dirs \cup moreDirs,
     files |-> [l \in DOMAIN ProjectWorld.files \cup moreFiles |->
                  IF l \in moreFiles THEN <<"s">> ELSE ProjectWorld.files[l]],
     bk |-> {}]

ResolveWorlds ==
    {TreeWith(D, F) : <<D, F>> \in
        {x \in (SUBSET OutsideDirs) \X (SUBSET OutsideFiles) :
            \A f \in x[2] : ParentOf(f) \in x[1]}}

ResolveBases == {<<"p">>, <<"p", "d">>}

EtcPasswd == RelPath(<<"..", "..", "etc", "passwd">>)

ResolvePathsTried ==
    {RelPath(<<"f">>), RelPath(<<"g">>), RelPath(<<"d">>), RelPath(<<"d", "..", "f">>),
     RelPath(<<>>), RelPath(<<"..", "pq", "s">>), RelPath(<<"..", "x">>), EtcPasswd,
     AbsPath(<<"p", "f">>), AbsPath(<<"p", "g">>), AbsPath(<<"pq", "s">>),
     AbsPath(<<"etc", "passwd">>), AbsPath(<<"p", "..", "etc", "passwd">>)}

InitResolve ==
    /\ ProtocolInit
    /\ diffed = NoDiff
    /\ serving = NotServing
    /\ sending = NotSending
    /\ parsed = NotParsed
    /\ \E w \in ResolveWorlds, b \in ResolveBases : ServiceInit(w, b)
    /\ McEditInit

\* One call of resolve_path with the current base directory.
Resolve ==
    /\ \E p \in ResolvePathsTried :
         fsLast' = [NoCall EXCEPT !.op = "resolve_path", !.path = p,
                                  !.base = base_directory, !.at = now,
                                  !.res = ResolvePath(world, base_directory, p),
                                  !.ok = ResolvePath(world, base_directory, p).ok,
                                  !.err = ResolvePath(world, base_directory, p).err]
    /\ UNCHANGED <<world, base_directory, backup_dir, now, ops, created, protoVars, diffed, serving, sending, parsed, mcVars>>

NextResolve ==
    \/ Resolve
    \/ ChangeDirectory

SpecResolve == InitResolve /\ [][NextResolve]_vars

\* ----------------------------------------------------------------- SpecFS
\* Requested paths: the file of the project, a file that is not there, and
\* the directory below the project.
PathsTried == {RelPath(<<"f">>), RelPath(<<"g">>), RelPath(<<"d">>)}

\* Names a file is renamed to: one that is free and one that is taken.
NewNamesTried == {RelPath(<<"g">>), RelPath(<<"d">>)}

\* Line numbers tried on files of up to three lines.
LinesTried == {0, 2}

\* Regions tried: start_line and end_line.
RegionsTried == {<<0, 1>>, <<1, 0>>}

\* The content given to the line and region operations.
LineText == <<"x">>

\* Clock readings that pass between one call and the next: the least, or a
\* whole millisecond.
Elapsed == {1, TicksPerMs}

SuggestionsTried ==
    {Suggestion("replace", TRUE, <<"x">>, FALSE, <<>>, "absent"),
     Suggestion("edit", FALSE, <<>>, TRUE,
                <<EditOp("insert", 0, 0, <<"x">>), EditOp("region", 0, 1, <<"y", "\n">>),
                  EditOp("move", 0, 0, <<>>), EditOp("delete", 1, 0, <<>>)>>, "absent"),
     Suggestion("edit", FALSE, <<>>, TRUE,
                <<EditOp("replace", 0, 0, <<"x">>), EditOp("delete", 7, 0, <<>>),
                  EditOp("insert", 0, 0, <<"x">>)>>, "absent"),
     Suggestion("create", TRUE, <<"x">>, FALSE, <<>>, "absent"),
     Suggestion("create", TRUE, <<"x">>, FALSE, <<>>, "true"),
     Suggestion("patch", TRUE, <<"x">>, FALSE, <<>>, "absent")}

\* The call of a file service operation at clock reading t with result r.
Called(op, path, t, r) ==
    LET res == ResolvePath(world, base_directory, path) IN
    /\ world' = r.world
    /\ now' = IF r.made > 1 THEN t + 1 ELSE t
    /\ ops' = ops + 1
    /\ created' = created + r.made
    /\ fsLast' = [op |-> op, path |-> path, base |-> base_directory, at |-> t,
                  res |-> res,
                  existed |-> res.ok /\ Exists(world, res.path),
                  wasFile |-> res.ok /\ IsFile(world, res.path),
                  pre |-> IF res.ok /\ IsFile(world, res.path)
                          THEN ContentAt(world, res.path) ELSE <<>>,
                  ok |-> r.ok, err |-> r.err, backup |-> r.backup]
    /\ UNCHANGED <<base_directory, backup_dir, protoVars, diffed, serving, sending, parsed, mcVars>>

WriteFile ==
    /\ ops < MaxOps
    /\ \E path \in PathsTried, content \in Texts, dt \in Elapsed, ioOk \in BOOLEAN :
         Called("write_file", path, now + dt,
                FsWriteFile(world, base_directory, backup_dir, path, content, now + dt, ioOk))

AppendToFile ==
    /\ ops < MaxOps
    /\ \E path \in PathsTried, dt \in Elapsed, ioOk \in BOOLEAN :
         Called("append_to_file", path, now + dt,
                FsAppendToFile(world, base_directory, backup_dir, path, LineText, now + dt, ioOk))

CreateFile ==
    /\ ops < MaxOps
    /\ \E path \in PathsTried, content \in Texts, dt \in Elapsed :
         Called("create_file", path, now + dt,
                FsCreateFile(world, base_directory, path, content))

InsertLine ==
    /\ ops < MaxOps
    /\ \E path \in PathsTried, n \in LinesTried,
          dt \in Elapsed, ioOk \in BOOLEAN :
         Called("insert_line", path, now + dt,
                FsInsertLine(world, base_directory, backup_dir, path, n, LineText, now + dt, ioOk))

ReplaceLine ==
    /\ ops < MaxOps
    /\ \E path \in PathsTried, n \in LinesTried,
          dt \in Elapsed, ioOk \in BOOLEAN :
         Called("replace_line", path, now + dt,
                FsReplaceLine(world, base_directory, backup_dir, path, n, LineText, now + dt, ioOk))

DeleteLine ==
    /\ ops < MaxOps
    /\ \E path \in PathsTried, n \in LinesTried, dt \in Elapsed, ioOk \in BOOLEAN :
         Called("delete_line", path, now + dt,
                FsDeleteLine(world, base_directory, backup_dir, path, n, now + dt, ioOk))

EditRegion ==
    /\ ops < MaxOps
    /\ \E path \in PathsTried, region \in RegionsTried,
          dt \in Elapsed, ioOk \in BOOLEAN :
         Called("edit_region", path, now + dt,
                FsEditRegion(world, base_directory, backup_dir, path,
                             region[1], region[2], LineText, now + dt, ioOk))

DeleteFile ==
    /\ ops < MaxOps
    /\ \E path \in PathsTried, dt \in Elapsed, ioOk \in BOOLEAN :
         Called("delete_file", path, now + dt,
                FsDeleteFile(world, base_directory, backup_dir, path, now + dt, ioOk))

RenameFile ==
    /\ ops < MaxOps
    /\ \E from \in PathsTried, to \in NewNamesTried, dt \in Elapsed, ioOk \in BOOLEAN :
         Called("rename_file", from, now + dt,
                FsRenameFile(world, base_directory, backup_dir, from, to, now + dt, ioOk))

RestoreBackup ==
    /\ ops < MaxOps
    /\ \E path \in PathsTried, dt \in Elapsed :
         Called("restore_backup", path, now + dt,
                FsRestoreBackup(world, base_directory, backup_dir, path))

ApplySuggestion ==
    /\ ops < MaxOps
    /\ \E path \in PathsTried, sug \in SuggestionsTried, dt \in Elapsed, ioOk \in BOOLEAN :
         Called("apply_suggestion", path, now + dt,
                FsApplySuggestion(world, base_directory, backup_dir, path, sug, now + dt, ioOk))

InitFS ==
    /\ ProtocolInit
    /\ diffed = NoDiff
    /\ serving = NotServing
    /\ sending = NotSending
    /\ parsed = NotParsed
    /\ ServiceInit(ProjectWorld, ProjectDir)
    /\ McEditInit

NextFS ==
    \/ WriteFile
    \/ AppendToFile
    \/ CreateFile
    \/ InsertLine
    \/ ReplaceLine
    \/ DeleteLine
    \/ EditRegion
    \/ DeleteFile
    \/ RenameFile
    \/ RestoreBackup
    \/ ApplySuggestion
    \/ ChangeDirectory

SpecFS == InitFS /\ [][NextFS]_vars

\* ------------------------------------------------------------- SpecBackup
\* One file is written again and again, by write_file or by a "create"
\* suggestion that overwrites.
BackedUpFile == RelPath(<<"f">>)

WriteAgain ==
    /\ created < MaxCreated
    /\ \E dt \in Elapsed :
         Called("write_file", BackedUpFile, now + dt,
                FsWriteFile(world, base_directory, backup_dir, BackedUpFile,
                            <<"x">>, now + dt, TRUE))

OverwriteAgain ==
    /\ created < MaxCreated
    /\ \E dt \in Elapsed :
         Called("apply_suggestion", BackedUpFile, now + dt,
                FsApplySuggestion(world, base_directory, backup_dir, BackedUpFile,
                                  Suggestion("create", TRUE, <<"x">>, FALSE, <<>>, "true"),
                                  now + dt, TRUE))

NextBackup ==
    \/ WriteAgain
    \/ OverwriteAgain

SpecBackup == InitFS /\ [][NextBackup]_vars

\* --------------------------------------------------------------- SpecEdit
\* The line operations of FileEditor and the "edit" suggestions of
\* FileService on one file, from each of the texts below.
EditedFile == <<"p", "f">>

EditTexts ==
    {<<>>, <<"a">>, <<"a", "\n">>, <<"a", "\n", "b">>, <<"a", "\n", "\n", "b">>,
     <<"a", "\n", "\n">>,
     <<"a", "\n", "b", "\n", "c", "\n", "d", "\n", "e">>}

\* The content argument: one line, nothing, two lines, a line with its
\* newline.
EditContents == {<<"X">>, <<>>, <<"X", "\n", "Y">>, <<"Y", "\n">>}

LineNums == 0..MaxLine

EditWorld(text) == [ProjectWorld EXCEPT !.files = (EditedFile :> text)]

\* The edit lists sent: all edits in range, an edit out of range between two
\* that are in range, an edit of an unknown action, and no edit.
EditListsTried ==
    {<<EditOp("insert", 0, 0, <<"X">>), EditOp("replace", 1, 0, <<"Y">>)>>,
     <<EditOp("insert", 0, 0, <<"X">>), EditOp("delete", MaxLine + 4, 0, <<>>),
       EditOp("insert", 0, 0, <<"Y">>)>>,
     <<EditOp("move", 0, 0, <<>>), EditOp("insert", 0, 0, <<"X">>)>>,
     <<EditOp("insert", 0, 0, <<"X">>), EditOp("delete", 1, 0, <<>>)>>,
     <<>>}

NoEdit ==
    [op |-> "none", line |-> 0, end |-> 0, content |-> <<>>, edits |-> <<>>,
     pre |-> <<>>, ok |-> FALSE, err |-> "", backup |-> "none", results |-> <<>>,
     given |-> NoJsonEdit]

\* One call of the editor on the file, and what it returned.
Edited(op, line, end, content, r) ==
    /\ ops < MaxEdits
    /\ world' = r.world
    /\ ops' = ops + 1
    /\ fsLast' = [NoEdit EXCEPT !.op = op, !.line = line, !.end = end,
                                !.content = content,
                                !.pre = ContentAt(world, EditedFile),
                                !.ok = r.ok, !.err = r.err]
    /\ UNCHANGED <<base_directory, backup_dir, now, created, protoVars, diffed, serving, sending, parsed, mcVars>>

EditInsertLine ==
    \E n \in LineNums, c \in EditContents :
        Edited("insert_line", n, 0, c, EditorInsertLine(world, EditedFile, n, c))

EditReplaceLine ==
    \E n \in LineNums, c \in EditContents :
        Edited("replace_line", n, 0, c, EditorReplaceLine(world, EditedFile, n, c))

EditDeleteLine ==
    \E n \in LineNums :
        Edited("delete_line", n, 0, <<>>, EditorDeleteLine(world, EditedFile, n))

EditEditRegion ==
    \E start \in LineNums, end \in LineNums, c \in EditContents :
        Edited("edit_region", start, end, c,
               EditorEditRegion(world, EditedFile, start, end, c))

\* apply_suggestion with an "edit" suggestion, one clock reading on.
EditApplySuggestion ==
    /\ ops < MaxEdits
    /\ \E edits \in EditListsTried, ioOk \in BOOLEAN :
         LET r == FsApplySuggestion(world, base_directory, backup_dir,
                                    RelPath(<<"f">>),
                                    Suggestion("edit", FALSE, <<>>, TRUE, edits, "absent"),
                                    now + 1, ioOk)
         IN  /\ world' = r.world
             /\ created' = created + r.made
             /\ fsLast' = [NoEdit EXCEPT !.op = "apply_suggestion", !.edits = edits,
                                         !.pre = ContentAt(world, EditedFile),
                                         !.ok = r.ok, !.err = r.err,
                                         !.backup = r.backup,
                                         !.results = IF "results" \in DOMAIN r
                                                     THEN r.results ELSE <<>>]
    /\ now' = now + 1
    /\ ops' = ops + 1
    /\ UNCHANGED <<base_directory, backup_dir, protoVars, diffed, serving, sending, parsed, mcVars>>

\* Line numbers as suggestions give them: in the file, beyond it, negative,
\* a string, or missing.
JsonLinesTried ==
    {JsonNumber(0), JsonNumber(1), JsonNumber(MaxLine + 4),
     JsonOther("negative"), JsonOther("string"), JsonOther("absent")}

\* apply_suggestion with an "edit" suggestion of one edit, the line numbers
\* as JSON gives them.
EditApplyJsonEdit ==
    /\ ops < MaxEdits
    /\ \E action \in EditActions, line \in JsonLinesTried, end \in JsonLinesTried :
         LET edit == IF action = "region"
                     THEN JsonEdit(action, JsonOther("absent"), line, end, <<"X">>)
                     ELSE JsonEdit(action, line, JsonOther("absent"), JsonOther("absent"),
                                   <<"X">>)
             r == FsApplySuggestion(world, base_directory, backup_dir, RelPath(<<"f">>),
                                    Suggestion("edit", FALSE, <<>>, TRUE, <<ReadEdit(edit)>>,
                                               "absent"),
                                    now + 1, TRUE)
         IN  /\ action # "region" => end = JsonOther("absent")
             /\ world' = r.world
             /\ created' = created + r.made
             /\ fsLast' = [NoEdit EXCEPT !.op = "apply_edit", !.given = edit,
                                         !.line = ReadEdit(edit).line,
                                         !.end = ReadEdit(edit).end,
                                         !.content = edit.content,
                                         !.pre = ContentAt(world, EditedFile),
                                         !.ok = r.ok, !.err = r.err, !.backup = r.backup]
    /\ now' = now + 1
    /\ ops' = ops + 1
    /\ UNCHANGED <<base_directory, backup_dir, protoVars, diffed, serving, sending, parsed, mcVars>>

InitEdit ==
    /\ ProtocolInit
    /\ diffed = NoDiff
    /\ serving = NotServing
    /\ sending = NotSending
    /\ parsed = NotParsed
    /\ \E text \in EditTexts :
         /\ world = BackupManagerNew(EditWorld(text), ProjectDir, TRUE).world
         /\ backup_dir = BackupManagerNew(EditWorld(text), ProjectDir, TRUE).backup_dir
    /\ base_directory = ProjectDir
    /\ now = 0
    /\ ops = 0
    /\ created = 0
    /\ fsLast = NoEdit
    /\ McEditInit

NextEdit ==
    \/ EditInsertLine
    \/ EditReplaceLine
    \/ EditDeleteLine
    \/ EditEditRegion
    \/ EditApplySuggestion
    \/ EditApplyJsonEdit

SpecEdit == InitEdit /\ [][NextEdit]_vars

\* --------------------------------------------------------------- SpecDiff
\* generate_unified_diff on pairs of texts of a few lines.
DiffLineTexts == {<<"a">>, <<"b">>}

\* The texts of n lines, the last one with or without its newline.
RECURSIVE TextsOfLines(_)
TextsOfLines(n) ==
    IF n = 0 THEN {<<>>}
    ELSE IF n = 1 THEN UNION {{l, l \o <<"\n">>} : l \in DiffLineTexts}
    ELSE {l \o <<"\n">> \o t : l \in DiffLineTexts, t \in TextsOfLines(n - 1)}

DiffTexts == UNION {TextsOfLines(n) : n \in 0..MaxDiffLines}

ShortTexts == UNION {TextsOfLines(n) : n \in 0..2}

\* A text of whole lines with one more line behind them.
GrownTexts(t) == IF EndsWithNewline(t) THEN {t \o l : l \in DiffLineTexts} ELSE {}

\* Every text against itself, every text against every short one, and the
\* longest texts against themselves with one more line.
DiffPairs ==
    {<<t, t>> : t \in DiffTexts}
    \cup (DiffTexts \X ShortTexts) \cup (ShortTexts \X DiffTexts)
    \cup UNION {{<<t, u>> : u \in GrownTexts(t)} \cup {<<u, t>> : u \in GrownTexts(t)} :
                t \in TextsOfLines(MaxDiffLines)}

GenerateDiff ==
    /\ ~diffed.done
    /\ \E changes \in Alignments(FromLines(diffed.original), FromLines(diffed.modified)) :
         diffed' = [diffed EXCEPT !.done = TRUE, !.changes = changes,
                                  !.hunks = GenerateUnifiedDiff(changes)]
    /\ UNCHANGED <<protoVars, fsVars, serving, sending, parsed, mcVars>>

InitDiff ==
    /\ ProtocolInit
    /\ ServiceInit(ProjectWorld, ProjectDir)
    /\ serving = NotServing
    /\ sending = NotSending
    /\ parsed = NotParsed
    /\ \E pair \in DiffPairs :
         diffed = [NoDiff EXCEPT !.original = pair[1], !.modified = pair[2]]
    /\ McEditInit

NextDiff == GenerateDiff

SpecDiff == InitDiff /\ [][NextDiff]_vars

\* ------------------------------------------------------------ SpecRestore
\* restore_backup after writes and deletions of one file, and on a file that
\* never had a backup.
RestoreWrite ==
    /\ ops < MaxRestoreOps
    /\ \E content \in Texts, dt \in Elapsed :
         Called("write_file", BackedUpFile, now + dt,
                FsWriteFile(world, base_directory, backup_dir, BackedUpFile,
                            content, now + dt, TRUE))

RestoreDelete ==
    /\ ops < MaxRestoreOps
    /\ \E dt \in Elapsed :
         Called("delete_file", BackedUpFile, now + dt,
                FsDeleteFile(world, base_directory, backup_dir, BackedUpFile,
                             now + dt, TRUE))

RestoreLatest ==
    /\ ops < MaxRestoreOps
    /\ \E path \in {BackedUpFile, RelPath(<<"g">>)}, dt \in Elapsed :
         Called("restore_backup", path, now + dt,
                FsRestoreBackup(world, base_directory, backup_dir, path))

NextRestore ==
    \/ RestoreWrite
    \/ RestoreDelete
    \/ RestoreLatest

SpecRestore == InitFS /\ [][NextRestore]_vars

\* ------------------------------------------------------------ SpecSuggest
\* Suggestions of type "create" on the paths of the project, with every
\* reading of the overwrite flag, with and without content.
CreateContents == {<<"x">>, <<"y", "\n">>}

CreateSuggestionsTried ==
    {Suggestion("create", h, c, FALSE, <<>>, o) :
        h \in BOOLEAN, c \in CreateContents, o \in OverwriteValues}

\* One call of apply_suggestion; the record of the call keeps the suggestion.
SuggestCreate ==
    /\ ops < MaxOps
    /\ \E path \in PathsTried, sug \in CreateSuggestionsTried, dt \in Elapsed, ioOk \in BOOLEAN :
         LET r == FsApplySuggestion(world, base_directory, backup_dir, path, sug, now + dt, ioOk)
             res == ResolvePath(world, base_directory, path)
         IN  /\ world' = r.world
             /\ now' = IF r.made > 1 THEN now + dt + 1 ELSE now + dt
             /\ created' = created + r.made
             /\ fsLast' = [op |-> "apply_suggestion", path |-> path, base |-> base_directory,
                           at |-> now + dt, res |-> res,
                           existed |-> res.ok /\ Exists(world, res.path),
                           wasFile |-> res.ok /\ IsFile(world, res.path),
                           pre |-> IF res.ok /\ IsFile(world, res.path)
                                   THEN ContentAt(world, res.path) ELSE <<>>,
                           ok |-> r.ok, err |-> r.err, backup |-> r.backup, sug |-> sug]
    /\ ops' = ops + 1
    /\ UNCHANGED <<base_directory, backup_dir, protoVars, diffed, serving, sending, parsed, mcVars>>

NextSuggest == SuggestCreate

SpecSuggest == InitFS /\ [][NextSuggest]_vars


\* -------------------------------------------------------------- SpecOrder
\* launch_mcp with the awaits of one pass through the loop apart, so that the
\* reader task runs between them: the request is taken (pc "taken"), log_both
\* is awaited (pc "logged"), the handler is awaited, and when it has failed
\* the InternalError response is awaited (pc "failed"). The client numbers
\* its requests.
OrderMethods == {"initialize", "tools/list", "no/such/method"}

Event(ev, id) == [ev |-> ev, id |-> id]

\* The responses among the messages one send has written, as events.
RECURSIVE WrittenEvents(_)
WrittenEvents(written) ==
    IF written = <<>> THEN <<>>
    ELSE (IF Head(written).kind = "response"
          THEN <<Event("written", Head(written).id)>> ELSE <<>>)
         \o WrittenEvents(Tail(written))

\* The pass through the loop is over: back to stream.next(), or out of
\* launch_mcp.
Finished(events, id) == Append(events, Event("finished", id))

OrderRead ==
    /\ readerState = "reading"
    /\ ~Lagging(queue)
    /\ serving.read < MaxServed
    /\ \E method \in OrderMethods :
         queue' = Publish(queue,
                          ParseJsonMessage(PlainLine(Request(serving.read + 1, method, NoParams))),
                          subscribed /\ pc \notin {"start", "returned_ok", "returned_err"})
    /\ serving' = [serving EXCEPT !.read = @ + 1]
    /\ UNCHANGED <<readerState, subscribed, pc, initialized, last, probeRejected, fsVars, diffed, sending, parsed, mcVars>>

\* stream.next() gives a request.
OrderTake ==
    /\ Taking
    /\ Head(queue).ok /\ Head(queue).msg.kind = "request"
    /\ pc' = "taken"
    /\ queue' = Tail(queue)
    /\ serving' = [serving EXCEPT !.req = Head(queue).msg,
                                  !.events = Append(@, Event("taken", Head(queue).msg.id))]
    /\ UNCHANGED <<readerState, subscribed, initialized, last, probeRejected, fsVars, diffed, sending, parsed, mcVars>>

\* log_both(..).await?
OrderLog ==
    /\ pc = "taken"
    /\ \E logOk \in BOOLEAN :
         IF LogBoth(logOk).ok
         THEN /\ pc' = "logged"
              /\ serving' = serving
         ELSE /\ pc' = AfterSend(FALSE)
              /\ serving' = [serving EXCEPT !.events = Finished(@, serving.req.id)]
    /\ UNCHANGED <<readerState, subscribed, queue, initialized, last, probeRejected, fsVars, diffed, sending, parsed, mcVars>>

\* The rest of the request arm up to the handler's return.
OrderHandle ==
    /\ pc = "logged"
    /\ \E sendOk, engineOk \in BOOLEAN :
         LET req == serving.req IN
         IF req.method = "initialize"
         THEN LET h == HandleInitialize(req.id, sendOk) IN
              /\ pc' = "loop"
              /\ initialized' = InitializedAfterInitialize(h.ok)
              /\ serving' = [serving EXCEPT
                               !.events = Finished(@ \o WrittenEvents(h.written), req.id)]
         ELSE IF MustReject(initialized)
         THEN LET e == SendErrorResponse(req.id, "InvalidRequest", sendOk) IN
              /\ pc' = AfterSend(e.ok)
              /\ initialized' = initialized
              /\ serving' = [serving EXCEPT
                               !.events = Finished(@ \o WrittenEvents(e.written), req.id)]
         ELSE LET h == HandleRequest(req, sendOk, engineOk) IN
              /\ initialized' = initialized
              /\ IF h.send.ok
                 THEN /\ pc' = "loop"
                      /\ serving' = [serving EXCEPT
                               !.events = Finished(@ \o WrittenEvents(h.send.written), req.id)]
                 ELSE /\ pc' = "failed"
                      /\ serving' = serving
    /\ UNCHANGED <<readerState, subscribed, queue, last, probeRejected, fsVars, diffed, sending, parsed, mcVars>>

\* send_error_response(InternalError).await? for the handler that failed.
OrderAnswerFailure ==
    /\ pc = "failed"
    /\ \E errSendOk \in BOOLEAN :
         LET e == SendErrorResponse(serving.req.id, "InternalError", errSendOk) IN
         /\ pc' = AfterSend(e.ok)
         /\ serving' = [serving EXCEPT
                          !.events = Finished(@ \o WrittenEvents(e.written), serving.req.id)]
    /\ UNCHANGED <<readerState, subscribed, queue, initialized, last, probeRejected, fsVars, diffed, sending, parsed, mcVars>>

NextOrder ==
    \/ Launch
    \/ OrderRead
    \/ ReadEof
    \/ OrderTake
    \/ OrderLog
    \/ OrderHandle
    \/ OrderAnswerFailure
    \/ StreamEnds

SpecOrder == Init /\ [][NextOrder]_vars


\* -------------------------------------------------------------- SpecChdir
\* Calls of change_directory and of resolve_path in any order. The record of
\* a call keeps, besides the call, the directory of the last change_directory
\* that returned Ok.
NoChange == [done |-> FALSE, dir |-> <<>>]

ChdirCall(op, path, base, res, ok, err, changed) ==
    [op |-> op, path |-> path, base |-> base, at |-> 0, res |-> res,
     existed |-> FALSE, wasFile |-> FALSE, pre |-> <<>>,
     ok |-> ok, err |-> err, backup |-> "none", changed |-> changed]

InitChdir ==
    /\ ProtocolInit
    /\ diffed = NoDiff
    /\ serving = NotServing
    /\ sending = NotSending
    /\ parsed = NotParsed
    /\ \E w \in ResolveWorlds, b \in ResolveBases :
         /\ world = BackupManagerNew(w, b, TRUE).world
         /\ base_directory = b
         /\ backup_dir = BackupManagerNew(w, b, TRUE).backup_dir
    /\ now = 0
    /\ ops = 0
    /\ created = 0
    /\ fsLast = ChdirCall("none", RelPath(<<>>), <<>>, Refused(""), FALSE, "", NoChange)
    /\ McEditInit

ChdirChange ==
    /\ ops < MaxOps
    /\ \E dir \in DirsTried, dirOk \in BOOLEAN :
         LET r == FsChangeDirectory(world, base_directory, backup_dir, dir, dirOk) IN
         /\ world' = r.world
         /\ base_directory' = r.base
         /\ backup_dir' = r.backup_dir
         /\ fsLast' = ChdirCall("change_directory", AbsPath(dir), base_directory,
                                Refused(""), r.ok, r.err,
                                IF r.ok THEN [done |-> TRUE, dir |-> dir] ELSE fsLast.changed)
    /\ ops' = ops + 1
    /\ UNCHANGED <<now, created, protoVars, diffed, serving, sending, parsed, mcVars>>

ChdirResolve ==
    /\ \E p \in ResolvePathsTried :
         LET res == ResolvePath(world, base_directory, p) IN
         fsLast' = ChdirCall("resolve_path", p, base_directory, res, res.ok, res.err,
                             fsLast.changed)
    /\ UNCHANGED <<world, base_directory, backup_dir, now, ops, created, protoVars, diffed, serving, sending, parsed, mcVars>>

NextChdir ==
    \/ ChdirChange
    \/ ChdirResolve

SpecChdir == InitChdir /\ [][NextChdir]_vars


\* --------------------------------------------------------------- SpecSend
\* Callers of StdioTransport::send running side by side. A call locks stdout,
\* serializes the message, writes the JSON text and the newline (writeln!),
\* flushes, and releases the guard when it returns; any of the steps after
\* the lock may fail, and the call then returns with what it has written so
\* far. Messages are numbered as their sends begin.

\* A lock that is never held.
LockFreeAlways(owner) == TRUE

\* Mutex::lock returns when nobody holds the guard.
LockFree(owner) == owner = NoOwner

Piece(msg, part) == [msg |-> msg, part |-> part]

\* send returns: the guard is dropped.
Returned(s, ok) ==
    [sending EXCEPT !.owner = NoOwner, !.at[s] = "idle",
                    !.failed = IF ok THEN @ ELSE @ \cup {sending.msg[s]}]

SendLock ==
    /\ sending.begun < MaxSends
    /\ \E s \in Senders :
         /\ sending.at[s] = "idle"
         /\ LockFree(sending.owner)
         /\ sending' = [sending EXCEPT !.owner = s, !.at[s] = "locked",
                                       !.msg[s] = sending.begun + 1, !.begun = @ + 1]
    /\ UNCHANGED <<protoVars, fsVars, diffed, serving, parsed, mcVars>>

\* serde_json::to_string
SendSerialize ==
    /\ \E s \in Senders, ok \in BOOLEAN :
         /\ sending.at[s] = "locked"
         /\ sending' = IF ok THEN [sending EXCEPT !.at[s] = "serialized"]
                       ELSE Returned(s, FALSE)
    /\ UNCHANGED <<protoVars, fsVars, diffed, serving, parsed, mcVars>>

\* writeln!: the text of the message.
SendWriteJson ==
    /\ \E s \in Senders, ok \in BOOLEAN :
         /\ sending.at[s] = "serialized"
         /\ sending' = IF ok
                       THEN [sending EXCEPT !.at[s] = "json",
                                            !.out = Append(@, Piece(sending.msg[s], "json"))]
                       ELSE Returned(s, FALSE)
    /\ UNCHANGED <<protoVars, fsVars, diffed, serving, parsed, mcVars>>

\* writeln!: the newline.
SendWriteNewline ==
    /\ \E s \in Senders, ok \in BOOLEAN :
         /\ sending.at[s] = "json"
         /\ sending' = IF ok
                       THEN [sending EXCEPT !.at[s] = "line",
                                            !.out = Append(@, Piece(sending.msg[s], "newline"))]
                       ELSE Returned(s, FALSE)
    /\ UNCHANGED <<protoVars, fsVars, diffed, serving, parsed, mcVars>>

\* stdout.flush(), and the return.
SendFlush ==
    /\ \E s \in Senders, ok \in BOOLEAN :
         /\ sending.at[s] = "line"
         /\ sending' = Returned(s, ok)
    /\ UNCHANGED <<protoVars, fsVars, diffed, serving, parsed, mcVars>>

NextSend ==
    \/ SendLock
    \/ SendSerialize
    \/ SendWriteJson
    \/ SendWriteNewline
    \/ SendFlush

SpecSend == Init /\ [][NextSend]_vars


\* -------------------------------------------------------------- SpecWhole
\* The whole-file operations with a precondition on the path: read_file,
\* append_to_file, create_file and rename_file, on the paths of the project.
\* The record of a call keeps the destination of a rename as well.
WholeCalled(op, path, to_path, t, r) ==
    LET res == ResolvePath(world, base_directory, path)
        to == ResolvePath(world, base_directory, to_path)
    IN
    /\ world' = r.world
    /\ now' = t
    /\ ops' = ops + 1
    /\ created' = created + r.made
    /\ fsLast' = [op |-> op, path |-> path, base |-> base_directory, at |-> t,
                  res |-> res,
                  existed |-> res.ok /\ Exists(world, res.path),
                  wasFile |-> res.ok /\ IsFile(world, res.path),
                  pre |-> IF res.ok /\ IsFile(world, res.path)
                          THEN ContentAt(world, res.path) ELSE <<>>,
                  ok |-> r.ok, err |-> r.err, backup |-> r.backup,
                  to |-> to, toExisted |-> to.ok /\ Exists(world, to.path)]
    /\ UNCHANGED <<base_directory, backup_dir, protoVars, diffed, serving, sending, parsed, mcVars>>

WholeRead ==
    /\ ops < MaxOps
    /\ \E path \in PathsTried, dt \in Elapsed :
         WholeCalled("read_file", path, path, now + dt,
                     FsReadFile(world, base_directory, path))

WholeAppend ==
    /\ ops < MaxOps
    /\ \E path \in PathsTried, dt \in Elapsed, ioOk \in BOOLEAN :
         WholeCalled("append_to_file", path, path, now + dt,
                     FsAppendToFile(world, base_directory, backup_dir, path, LineText,
                                    now + dt, ioOk))

WholeCreate ==
    /\ ops < MaxOps
    /\ \E path \in PathsTried, content \in Texts, dt \in Elapsed :
         WholeCalled("create_file", path, path, now + dt,
                     FsCreateFile(world, base_directory, path, content))

WholeRename ==
    /\ ops < MaxOps
    /\ \E from \in PathsTried, to \in PathsTried, dt \in Elapsed, ioOk \in BOOLEAN :
         WholeCalled("rename_file", from, to, now + dt,
                     FsRenameFile(world, base_directory, backup_dir, from, to, now + dt, ioOk))

NextWhole ==
    \/ WholeRead
    \/ WholeAppend
    \/ WholeCreate
    \/ WholeRename

SpecWhole == InitFS /\ [][NextWhole]_vars


\* -------------------------------------------------------------- SpecParse
\* One line of input, any text of up to MaxText characters, read by the
\* spawned task: trimmed and given to parse_json_message.
RECURSIVE TextsOfLength(_)
TextsOfLength(n) ==
    IF n = 0 THEN {<<>>}
    ELSE {Append(t, c) : t \in TextsOfLength(n - 1), c \in LineChars}

LineTexts == UNION {TextsOfLength(n) : n \in 0..MaxText}

InitParse ==
    /\ ProtocolInit
    /\ ServiceInit(ProjectWorld, ProjectDir)
    /\ diffed = NoDiff
    /\ serving = NotServing
    /\ sending = NotSending
    /\ \E text \in LineTexts : parsed = [NotParsed EXCEPT !.text = text]
    /\ McEditInit

ParseLine ==
    /\ ~parsed.done
    /\ parsed' = [parsed EXCEPT !.done = TRUE, !.result = ParseText(Trim(parsed.text))]
    /\ UNCHANGED <<protoVars, fsVars, diffed, serving, sending, mcVars>>

NextParse == ParseLine

SpecParse == InitParse /\ [][NextParse]_vars


\* ------------------------------------------------------------ SpecProject
\* McEdit with its file service after changes of directory: files are
\* written, the directory is changed through change_current_directory, and
\* the backups of a file are listed and restored.
\* The project with a second file, in the directory below.
ProjectTree ==
    [ProjectWorld EXCEPT !.files = (<<"p", "f">> :> ProjectText) @@ (<<"p", "d", "g">> :> <<"x">>)]

\* McEdit::change_current_directory. mkOk is whether the system lets a
\* missing directory be made, dirOk whether it lets .backups be made. When
\* the file service fails, the `?` returns before the analyzer and the
\* current directory are set.
McChangeCurrentDirectory(w, base, bdir, cur, root, new_directory, mkOk, dirOk) ==
    LET project_directory == IF new_directory.abs THEN new_directory.comps
                             ELSE cur \o new_directory.comps
        made == IF Exists(w, project_directory) THEN [ok |-> TRUE, world |-> w]
                ELSE IF mkOk THEN CreateDirAll(w, <<>>, project_directory)
                ELSE [ok |-> FALSE, world |-> w]
        r == FsChangeDirectory(made.world, base, bdir, project_directory, dirOk)
    IN  IF ~made.ok
        THEN [ok |-> FALSE, err |-> "IoError", world |-> w, base |-> base,
              backup_dir |-> bdir, current_directory |-> cur, analyzer_root |-> root]
        ELSE IF ~r.ok
        THEN [ok |-> FALSE, err |-> r.err, world |-> r.world, base |-> r.base,
              backup_dir |-> r.backup_dir, current_directory |-> cur,
              analyzer_root |-> root]
        ELSE [ok |-> TRUE, err |-> "", world |-> r.world, base |-> r.base,
              backup_dir |-> r.backup_dir, current_directory |-> project_directory,
              analyzer_root |-> project_directory]

\* Directories asked for: the project, the one below it, the one above it,
\* the same by relative paths, and one that does not exist yet.
ProjectDirsTried ==
    {AbsPath(<<"p">>), AbsPath(<<"p", "d">>), AbsPath(<<>>), RelPath(<<"d">>),
     RelPath(<<"..">>), AbsPath(<<"p", "new">>)}

\* The two files, as they are named from each of the directories.
ProjectPathsTried ==
    {RelPath(<<"f">>), RelPath(<<"g">>), RelPath(<<"p", "f">>), RelPath(<<"d", "g">>),
     RelPath(<<"p", "d", "g">>)}

\* The record of a call: `seen` are the backups list_backups returned.
ProjectCall(op, path, res, ok, err, seen) ==
    [op |-> op, path |-> path, base |-> base_directory, at |-> now, res |-> res,
     existed |-> FALSE, wasFile |-> FALSE, pre |-> <<>>,
     ok |-> ok, err |-> err, backup |-> "none", seen |-> seen]

InitProject ==
    /\ ProtocolInit
    /\ diffed = NoDiff
    /\ serving = NotServing
    /\ sending = NotSending
    /\ parsed = NotParsed
    /\ ServiceInit(ProjectTree, ProjectDir)
    /\ McEditInit

ProjectChangeDirectory ==
    /\ ops < MaxOps
    /\ \E dir \in ProjectDirsTried, mkOk \in BOOLEAN, dirOk \in BOOLEAN :
         LET r == McChangeCurrentDirectory(world, base_directory, backup_dir,
                                           current_directory, analyzer_root,
                                           dir, mkOk, dirOk)
         IN  /\ world' = r.world
             /\ base_directory' = r.base
             /\ backup_dir' = r.backup_dir
             /\ current_directory' = r.current_directory
             /\ analyzer_root' = r.analyzer_root
             /\ fsLast' = ProjectCall("change_current_directory", dir, Refused(""),
                                      r.ok, r.err, {})
    /\ ops' = ops + 1
    /\ UNCHANGED <<now, created, protoVars, diffed, serving, sending, parsed>>

\* McEdit::write_file, a whole millisecond after the call before.
ProjectWriteFile ==
    /\ ops < MaxOps
    /\ \E path \in ProjectPathsTried, content \in Texts :
         LET r == FsWriteFile(world, base_directory, backup_dir, path, content,
                              now + TicksPerMs, TRUE)
         IN  /\ world' = r.world
             /\ created' = created + r.made
             /\ fsLast' = ProjectCall("write_file", path,
                                      ResolvePath(world, base_directory, path),
                                      r.ok, r.err, {})
    /\ now' = now + TicksPerMs
    /\ ops' = ops + 1
    /\ UNCHANGED <<base_directory, backup_dir, protoVars, diffed, serving, sending, parsed, mcVars>>

\* FileService::list_backups.
ProjectListBackups ==
    /\ \E path \in ProjectPathsTried :
         LET r == FsListBackups(world, base_directory, backup_dir, path) IN
         fsLast' = ProjectCall("list_backups", path,
                               ResolvePath(world, base_directory, path), r.ok, r.err,
                               {r.entries[i] : i \in 1..Len(r.entries)})
    /\ UNCHANGED <<world, base_directory, backup_dir, now, ops, created, protoVars, diffed,
                   serving, sending, parsed, mcVars>>

\* FileService::restore_backup.
ProjectRestoreBackup ==
    /\ ops < MaxOps
    /\ \E path \in ProjectPathsTried :
         LET r == FsRestoreBackup(world, base_directory, backup_dir, path) IN
         /\ world' = r.world
         /\ fsLast' = ProjectCall("restore_backup", path,
                                  ResolvePath(world, base_directory, path), r.ok, r.err, {})
    /\ ops' = ops + 1
    /\ UNCHANGED <<base_directory, backup_dir, now, created, protoVars, diffed, serving,
                   sending, parsed, mcVars>>

NextProject ==
    \/ ProjectChangeDirectory
    \/ ProjectWriteFile
    \/ ProjectListBackups
    \/ ProjectRestoreBackup

SpecProject == InitProject /\ [][NextProject]_vars


\* ---------------------------------------------------------------- claims
ListingMethods == {"tools/list", "resources/list", "prompts/list"}

ListingBody(method) ==
    CASE method = "tools/list" -> "tools"
      [] method = "resources/list" -> "resources"
      [] method = "prompts/list" -> "prompts"
      [] OTHER -> "initialize"

ResponsesWritten == SelectSeq(last.written, LAMBDA m : m.kind = "response")

LastRequest == last.item.msg

\* C1: a request other than initialize taken while the session is
\* uninitialized is not routed, reaches no tool, leaves the session
\* uninitialized and is answered, when the output stream takes the writes, by
\* exactly the InvalidRequest error with its id (and by no response otherwise);
\* taken after initialization, the same request is routed to handle_request
\* (unless the write of the log notification before it failed, on which the
\* loop returns), is never answered InvalidRequest, and a listing request gets
\* its result.
UninitializedRequestsAreRejected ==
    (last.took = "request" /\ LastRequest.method # "initialize") =>
        IF ~last.initBefore
        THEN /\ ~initialized
             /\ ~last.routed
             /\ ~last.engine
             /\ IF last.sendFailed
                THEN ResponsesWritten = <<>>
                ELSE last.written =
                        <<LogNotification, ErrorResponse(LastRequest.id, "InvalidRequest")>>
        ELSE /\ last.routed \/ (last.sendFailed /\ last.written = <<>>)
             /\ \A i \in 1..Len(last.written) : last.written[i].code # "InvalidRequest"
             /\ (~last.sendFailed /\ LastRequest.method \in ListingMethods) =>
                    last.written =
                        <<LogNotification,
                          ResultResponse(LastRequest.id, ListingBody(LastRequest.method))>>

\* C1 witness: the probe request was rejected before initialize and the same
\* request has now been answered with its result.
ProbeRejectedThenServed ==
    /\ probeRejected
    /\ last.item = OkItem(ProbeRequest)
    /\ last.initBefore
    /\ last.written = <<LogNotification, ResultResponse(1, "tools")>>

\* C2: every request the loop takes is answered by exactly one response that
\* carries its id, whatever its method and with or without params (stated for
\* the runs in which every write to the output stream succeeds).
EveryRequestGetsOneResponse ==
    (last.took = "request" /\ ~last.sendFailed) =>
        /\ Len(ResponsesWritten) = 1
        /\ ResponsesWritten[1].id = LastRequest.id

\* C3: a failure of a routed handler is answered by an InternalError response
\* with the request's id, and the serving loop does not return with an error.
HandlerFailureIsAnsweredAndLoopGoesOn ==
    last.handlerFailed =>
        /\ pc # "returned_err"
        /\ Len(ResponsesWritten) >= 1
        /\ ResponsesWritten[Len(ResponsesWritten)] =
              ErrorResponse(LastRequest.id, "InternalError")

\* The response a request without tool call is due when the writes succeed.
PlainResponse(initBefore, req) ==
    IF req.method = "initialize" THEN ResultResponse(req.id, "initialize")
    ELSE IF initBefore THEN ResultResponse(req.id, ListingBody(req.method))
    ELSE ErrorResponse(req.id, "InvalidRequest")

\* C4: taking the item of an unparseable line leaves the loop running, the
\* session state as it was, writes nothing and consumes that item only, so the
\* items behind it are still taken; and a request taken after such an item
\* gets the response it is due.
UnparseableLineIsSkipped ==
    /\ [][(Taking /\ ~Head(queue).ok /\ Len(queue') < Len(queue)) =>
            /\ pc' = "loop"
            /\ initialized' = initialized
            /\ queue' = Tail(queue)
            /\ last'.written = <<>>]_vars
    /\ [](( /\ last.afterError
            /\ last.took = "request"
            /\ ~last.sendFailed
            /\ LastRequest.method \in ListingMethods \cup {"initialize"}) =>
           last.written = <<LogNotification, PlainResponse(last.initBefore, LastRequest)>>)

\* C4 witness: after an unparseable line was taken, a listing request has been
\* routed and answered with its result.
RequestServedAfterUnparseableLine ==
    /\ last.afterError
    /\ last.took = "request"
    /\ last.routed
    /\ LastRequest.method \in ListingMethods
    /\ last.written =
          <<LogNotification, ResultResponse(LastRequest.id, ListingBody(LastRequest.method))>>

\* C10: the session is initialized only by an initialize request whose
\* response was sent: after any item, the session is initialized exactly when
\* it was before, or the item was an initialize request that was answered.
InitializedOnlyBySuccessfulInitialize ==
    last.took # "nothing" =>
        (initialized <=>
            \/ last.initBefore
            \/ /\ last.took = "request"
               /\ LastRequest.method = "initialize"
               /\ ResponsesWritten = <<ResultResponse(LastRequest.id, "initialize")>>)

\* The place a path designates, ".." taken against the components before it.
RECURSIVE LexicalFrom(_, _)
LexicalFrom(cur, comps) ==
    IF comps = <<>> THEN cur
    ELSE IF Head(comps) = ".." THEN LexicalFrom(ParentOf(cur), Tail(comps))
    ELSE LexicalFrom(Append(cur, Head(comps)), Tail(comps))

Lexical(path) == LexicalFrom(<<>>, path)

\* C5: whatever the base directory and the requested path (relative or
\* absolute, existing or not, with or without ".."), resolve_path either
\* returns a path that designates the canonical base directory or a place
\* below it, or fails with PermissionDenied.
ResolveStaysInsideBase ==
    fsLast.op = "resolve_path" =>
        IF fsLast.res.ok
        THEN PathStartsWith(Lexical(fsLast.res.path), Canonicalize(world, fsLast.base).loc)
        ELSE fsLast.err = "PermissionDenied"

\* C6: resolving the relative path ../../etc/passwd fails, at either depth of
\* the base directory and whether or not /etc/passwd exists.
EtcPasswdIsRefused ==
    (fsLast.op = "resolve_path" /\ fsLast.path = EtcPasswd) => ~fsLast.res.ok

\* The operations that change a target and take a backup of it first.
MutatingOps ==
    {"write_file", "append_to_file", "insert_line", "replace_line", "delete_line",
     "edit_region", "delete_file", "rename_file", "apply_suggestion"}

\* The target of the last call: where resolve_path put it.
LastTarget == fsLast.res.path

\* The target of the last call is no longer what it was before the call.
TargetChanged ==
    IF fsLast.wasFile
    THEN ~(IsFileAt(world, LastTarget) /\ world.files[LastTarget] = fsLast.pre)
    ELSE ~IsDirAt(world, LastTarget)

\* A backup file made during the last call holds the content the target had
\* before the call.
BackupOfLastTarget ==
    \E r \in world.bk :
        /\ r.dir = BackupDirAt(world, backup_dir)
        /\ r.bucket = LastTarget
        /\ r.text = fsLast.pre
        /\ r.mtime \in {fsLast.at, fsLast.at + 1}

\* C7: when a mutating operation (write, append, insert_line, replace_line,
\* delete_line, edit_region, delete, rename of the source, apply_suggestion)
\* is called on a target that exists, the target is changed only with a backup
\* holding the content it had before the call, the operation succeeds only
\* with such a backup, and when create_backup fails the operation fails and
\* the target is what it was.
BackupBeforeChange ==
    (fsLast.op \in MutatingOps /\ fsLast.res.ok /\ fsLast.existed) =>
        /\ TargetChanged => (fsLast.backup = "created" /\ BackupOfLastTarget)
        /\ fsLast.ok => (fsLast.backup = "created" /\ BackupOfLastTarget)
        /\ fsLast.backup = "failed" => (~fsLast.ok /\ ~TargetChanged)

\* A mutating operation has changed a file that was there, its content of
\* before being in a backup of this call.
ChangedWithBackup ==
    /\ fsLast.op \in MutatingOps
    /\ fsLast.wasFile
    /\ TargetChanged
    /\ fsLast.backup = "created"
    /\ BackupOfLastTarget

\* C8: after a successful mutating operation on a file that was there,
\* list_backups for the path the operation was called with is not empty and
\* the bytes of its first entry are the content the file had before the
\* operation.
NewestBackupIsContentBefore ==
    (fsLast.op \in MutatingOps /\ fsLast.ok /\ fsLast.wasFile) =>
        LET listed == FsListBackups(world, base_directory, backup_dir, fsLast.path) IN
        /\ listed.ok
        /\ listed.entries # <<>>
        /\ listed.entries[1].text = fsLast.pre

\* The backups list_backups gives for the file written again and again.
KeptBackups ==
    FsListBackups(world, base_directory, backup_dir, BackedUpFile).entries

\* C9: the backups kept for a file never exceed MAX_BACKUPS_PER_FILE, and
\* once more than MAX_BACKUPS_PER_FILE backups of it have been made
\* list_backups gives exactly MAX_BACKUPS_PER_FILE entries, newest first, the
\* first being the backup made last.
RetentionKeepsNewest ==
    /\ Len(KeptBackups) <= MAX_BACKUPS_PER_FILE
    /\ created > MAX_BACKUPS_PER_FILE =>
          /\ Len(KeptBackups) = MAX_BACKUPS_PER_FILE
          /\ \A i \in 1..(Len(KeptBackups) - 1) :
                KeptBackups[i].mtime > KeptBackups[i + 1].mtime
          /\ KeptBackups[1].mtime = now

\* C11: a request taken after initialization whose method is none of
\* initialize, tools/list, tools/call, resources/list, prompts/list is routed
\* to handle_request, reaches no tool, leaves the session initialized, does
\* not make launch_mcp return an error, and is answered, when the output stream takes the writes, by
\* exactly the MethodNotFound error with its id.
UnknownMethodIsMethodNotFound ==
    (/\ last.took = "request"
     /\ last.initBefore
     /\ LastRequest.method \notin RoutedMethods
     /\ ~last.sendFailed) =>
        /\ last.routed
        /\ ~last.handlerFailed
        /\ ~last.engine
        /\ initialized
        /\ pc # "returned_err"
        /\ last.written =
              <<LogNotification, ErrorResponse(LastRequest.id, "MethodNotFound")>>

\* C11 witness: an unknown method with id 2 was answered MethodNotFound.
UnknownMethodAnswered ==
    /\ last.took = "request"
    /\ last.initBefore
    /\ LastRequest = Request(2, "no/such/method", NoParams)
    /\ last.written = <<LogNotification, ErrorResponse(2, "MethodNotFound")>>

\* The last request is a tools/call that names a tool and leaves out one of
\* the tool's required arguments or gives it a value that is no string.
LastCallLacksArgument ==
    /\ last.took = "request"
    /\ last.initBefore
    /\ last.routed
    /\ LastRequest.method = "tools/call"
    /\ LastRequest.params.present
    /\ LastRequest.params.name \in ToolNames
    /\ \E a \in RequiredArgs(LastRequest.params.name) :
          \/ ~LastRequest.params.args.given
          \/ LastRequest.params.args.of[a] # "string"

\* C12: a tools/call that leaves out a required argument of the named tool, or
\* gives it a value of the wrong type, never reaches McEdit (no file is read,
\* written, created, renamed or deleted and no backup is taken), and is
\* answered, when the output stream takes the writes, by exactly the
\* InvalidParams error with its id.
MissingArgumentIsInvalidParams ==
    LastCallLacksArgument =>
        /\ ~last.engine
        /\ ~last.sendFailed =>
              last.written =
                 <<LogNotification, ErrorResponse(LastRequest.id, "InvalidParams")>>

\* C12 witness: rename_file with a to_path that is no string was answered
\* InvalidParams without a call of McEdit.
WrongTypeAnsweredInvalidParams ==
    /\ LastCallLacksArgument
    /\ LastRequest.params = ToolParams("rename_file", Arguments({"from_path"}, {"to_path"}))
    /\ ~last.engine
    /\ last.written = <<LogNotification, ErrorResponse(1, "InvalidParams")>>

\* The edits in sequence with a failing edit passed over: the file an "edit"
\* suggestion would leave if no edit ended the call.
RECURSIVE EditsPassingOverFailures(_, _, _)
EditsPassingOverFailures(w, target, edits) ==
    IF edits = <<>> THEN w
    ELSE EditsPassingOverFailures(ApplyEdit(w, target, Head(edits)).world, target,
                                  Tail(edits))

\* The last call was apply_suggestion with an "edit" suggestion whose backup
\* was taken, so that the loop over the edits was entered.
EditsWereTried == fsLast.op = "apply_suggestion" /\ fsLast.backup = "created"

\* C13: an "edit" suggestion returns a results sequence with one entry for
\* each op of the list, and an op that fails does not end the call: the file
\* is left as the ops that work, those behind a failing op included, make it.
EveryEditReportsAndNoneAborts ==
    EditsWereTried =>
        /\ fsLast.ok
        /\ Len(fsLast.results) = Len(fsLast.edits)
        /\ ContentAt(world, EditedFile) =
              ContentAt(EditsPassingOverFailures(EditWorld(fsLast.pre), EditedFile,
                                                 fsLast.edits), EditedFile)

\* C14: when the reader publishes into a full channel, only the oldest item
\* not yet taken is lost: the stream of the serving loop does not end, and the
\* loop goes on with the items that are left and those published later.
OverflowDoesNotEndTheStream ==
    [][(pc = "loop" /\ Lagging(queue)) => pc' = "loop"]_vars

\* C15: once standard input is at its end, or a read has failed, and the
\* reader has stopped, the serving loop takes what is queued and then returns:
\* launch_mcp does not go on waiting once its input is over.
SessionEndsWithItsInput ==
    (readerState = "stopped") ~> (pc \in {"returned_ok", "returned_err"})

\* The lines of the file before the last editor call, and after it.
LinesBefore == TextLines(fsLast.pre)

LinesAfter == TextLines(ContentAt(world, EditedFile))

\* A content that is one line: it holds no newline.
OneLine(content) == \A i \in 1..Len(content) : content[i] # "\n"

\* The last call failed LineOutOfRange and left the file as it was.
RefusedOutOfRange ==
    /\ ~fsLast.ok
    /\ fsLast.err = "LineOutOfRange"
    /\ ContentAt(world, EditedFile) = fsLast.pre

\* C16: insert_line(n, content), content being one line, succeeds exactly
\* when n is at most the number of lines of the file, and the lines of the
\* file are then those before n, content, and those from n on; for a larger n
\* it fails LineOutOfRange.
InsertLineYieldsLines ==
    (fsLast.op = "insert_line" /\ OneLine(fsLast.content)) =>
        IF fsLast.line <= Len(LinesBefore)
        THEN /\ fsLast.ok
             /\ LinesAfter = SubSeq(LinesBefore, 1, fsLast.line) \o <<fsLast.content>>
                             \o SubSeq(LinesBefore, fsLast.line + 1, Len(LinesBefore))
        ELSE RefusedOutOfRange

\* C17: replace_line(n, content), content being one line, and delete_line(n)
\* succeed exactly when n is less than the number of lines of the file; the
\* lines of the file are then the same but for line n, which is content,
\* respectively gone; for n at or beyond the number of lines they fail
\* LineOutOfRange.
ReplaceAndDeleteChangeOneLine ==
    /\ (fsLast.op = "replace_line" /\ OneLine(fsLast.content)) =>
          IF fsLast.line < Len(LinesBefore)
          THEN /\ fsLast.ok
               /\ LinesAfter = [LinesBefore EXCEPT ![fsLast.line + 1] = fsLast.content]
          ELSE RefusedOutOfRange
    /\ fsLast.op = "delete_line" =>
          IF fsLast.line < Len(LinesBefore)
          THEN /\ fsLast.ok
               /\ LinesAfter = SubSeq(LinesBefore, 1, fsLast.line)
                               \o SubSeq(LinesBefore, fsLast.line + 2, Len(LinesBefore))
          ELSE RefusedOutOfRange

\* The lines of a content, as the claim counts them: none for the empty
\* content.
ContentLines(content) == TextLines(content)

\* C18: edit_region(start, end, content) with start <= end and start less
\* than the number of lines of the file succeeds, and the lines of the file
\* are then those before start, the lines of content, and those from
\* min(end, lineCount) on.
EditRegionReplacesSpan ==
    (/\ fsLast.op = "edit_region"
     /\ fsLast.line <= fsLast.end
     /\ fsLast.line < Len(LinesBefore)) =>
        /\ fsLast.ok
        /\ LinesAfter = SubSeq(LinesBefore, 1, fsLast.line)
                        \o ContentLines(fsLast.content)
                        \o SubSeq(LinesBefore, Min(fsLast.end, Len(LinesBefore)) + 1,
                                  Len(LinesBefore))

\* C19: the unified diff of a text against itself has no hunk, however many
\* lines the text has: a hunk of unchanged lines that is flushed is dropped.
DiffOfTextWithItselfHasNoHunk ==
    (diffed.done /\ diffed.original = diffed.modified) => diffed.hunks = <<>>

\* C19 witness: a text of more lines than the flush threshold was diffed
\* against itself, every line came out Equal and no hunk was made.
LongTextDiffedWithItself ==
    /\ diffed.done
    /\ diffed.original = diffed.modified
    /\ Len(FromLines(diffed.original)) > FlushThreshold
    /\ Len(diffed.changes) = Len(FromLines(diffed.original))
    /\ \A i \in 1..Len(diffed.changes) : diffed.changes[i].tag = "equal"
    /\ diffed.hunks = <<>>

\* The backup files kept for the file a path designates.
BackupsOf(w, path) == InBucket(w, backup_dir, path)

\* The step is a restore_backup call whose path resolved.
RestoreStep ==
    /\ ops' = ops + 1
    /\ fsLast'.op = "restore_backup"
    /\ fsLast'.res.ok

\* C20: restore_backup of a file that has no backup fails NoBackupAvailable
\* and changes nothing; of a file that has backups it succeeds, leaves the
\* file with the bytes of the backup made last, and makes or removes no
\* backup: the backup files are the same before and after the call.
RestoreTakesNewestAndMakesNoBackup ==
    [][RestoreStep =>
         LET target == fsLast'.res.path
             kept == BackupsOf(world, target)
         IN  /\ world'.bk = world.bk
             /\ IF kept = {}
                THEN /\ ~fsLast'.ok
                     /\ fsLast'.err = "NoBackupAvailable"
                     /\ world' = world
                ELSE /\ fsLast'.ok
                     /\ \E r \in kept :
                          /\ \A s \in kept : s.mtime <= r.mtime
                          /\ ContentAt(world', target) = r.text]_vars

\* C20 witness: the file was written twice and then restored: of its two
\* backups, which differ, the later one is what the file holds, and both
\* backups are still there.
RestoredFromNewerOfTwo ==
    /\ fsLast.op = "restore_backup"
    /\ fsLast.ok
    /\ Cardinality(BackupsOf(world, fsLast.res.path)) = 2
    /\ \E r, s \in BackupsOf(world, fsLast.res.path) :
         /\ s.mtime < r.mtime
         /\ s.text # r.text
         /\ ContentAt(world, fsLast.res.path) = r.text
         /\ fsLast.pre # r.text

\* The operations that make a file where there is none.
CreatingOps == {"create_file", "write_file", "apply_suggestion"}

\* The step is a call of a creating operation on a path that resolve_path
\* accepts and that does not exist.
CreatesBrandNew ==
    /\ ops' = ops + 1
    /\ fsLast'.op \in CreatingOps
    /\ fsLast'.res.ok
    /\ ~fsLast'.existed

\* C21: a call of create_file, write_file or apply_suggestion on a path that
\* does not exist makes no backup: the backup files are the same before and
\* after the call.
NewFileMakesNoBackup ==
    [][CreatesBrandNew => world'.bk = world.bk]_vars

\* A suggestion has made a file that was not there, in a run that holds a
\* backup of another file.
SuggestionMadeNewFileBesideBackups ==
    /\ fsLast.op = "apply_suggestion"
    /\ fsLast.res.ok
    /\ ~fsLast.existed
    /\ fsLast.ok
    /\ IsFileAt(world, LastTarget)
    /\ world.bk # {}

\* The last call was a "create" suggestion on a target that was there.
CreateOnExisting ==
    /\ fsLast.op = "apply_suggestion"
    /\ fsLast.sug.type = "create"
    /\ fsLast.res.ok
    /\ fsLast.existed

\* C22: a "create" suggestion on a target that exists fails and leaves the
\* target as it was unless its overwrite flag is the boolean true; it
\* succeeds only with that flag, and then the target holds the content of the
\* suggestion.
CreateClobbersOnlyWithOverwrite ==
    CreateOnExisting =>
        /\ fsLast.sug.overwrite # "true" => (~fsLast.ok /\ ~TargetChanged)
        /\ fsLast.ok =>
              /\ fsLast.sug.overwrite = "true"
              /\ IsFileAt(world, LastTarget)
              /\ world.files[LastTarget] = fsLast.sug.content

\* Both cases have been seen on a file: refused without the flag, the file as
\* it was; or replaced with the flag, the file holding the new content.
CreateRefusedOnExistingFile ==
    /\ CreateOnExisting
    /\ fsLast.wasFile
    /\ fsLast.sug.hasContent
    /\ fsLast.sug.overwrite = "false"
    /\ fsLast.err = "FileAlreadyExists"
    /\ fsLast.sug.content # fsLast.pre
    /\ world.files[LastTarget] = fsLast.pre

\* Where in the events request id was taken, or 0.
TakenAt(id) ==
    IF \E i \in 1..Len(serving.events) : serving.events[i] = Event("taken", id)
    THEN CHOOSE i \in 1..Len(serving.events) : serving.events[i] = Event("taken", id)
    ELSE 0

\* C23: requests are processed one at a time and answered in the order they
\* are taken: between two requests taken, the first is done with; a response
\* is written only for the request taken last and before it is done with; so
\* the responses come in the order of the taking.
OneAtATimeInOrder ==
    LET ev == serving.events IN
    /\ \A i, j \in 1..Len(ev) :
          (i < j /\ ev[i].ev = "taken" /\ ev[j].ev = "taken") =>
              \E k \in (i + 1)..(j - 1) : ev[k] = Event("finished", ev[i].id)
    /\ \A j \in 1..Len(ev) :
          ev[j].ev = "written" =>
              /\ TakenAt(ev[j].id) \in 1..(j - 1)
              /\ \A k \in TakenAt(ev[j].id)..j : ev[k].id = ev[j].id /\ ev[k].ev # "finished"
    /\ \A i, j \in 1..Len(ev) :
          (i < j /\ ev[i].ev = "written" /\ ev[j].ev = "written") =>
              TakenAt(ev[i].id) <= TakenAt(ev[j].id)

\* Every request the client wrote was answered, the first one first and the
\* last one last.
ThreeAnsweredInOrder ==
    /\ Len(SelectSeq(serving.events, LAMBDA e : e.ev = "written")) = MaxServed
    /\ SelectSeq(serving.events, LAMBDA e : e.ev = "written")[1].id = 1
    /\ SelectSeq(serving.events, LAMBDA e : e.ev = "written")[MaxServed].id = MaxServed

\* The path has no ".." component.
Plain(comps) == \A i \in 1..Len(comps) : comps[i] # ".."

\* C24: once a change_directory(d) has returned Ok, every later resolve_path
\* resolves against d: it is computed with d as the base, a relative path
\* without ".." is accepted, and what is accepted designates d or a place
\* below it.
ResolutionFollowsChangedBase ==
    (fsLast.op = "resolve_path" /\ fsLast.changed.done) =>
        /\ fsLast.base = fsLast.changed.dir
        /\ (~fsLast.path.abs /\ Plain(fsLast.path.comps)) => fsLast.res.ok
        /\ fsLast.res.ok =>
              PathStartsWith(Lexical(fsLast.res.path),
                             Canonicalize(world, fsLast.changed.dir).loc)

\* The part of C24 that the code keeps: a resolve_path after a successful
\* change_directory with no failed one in between is computed against the new
\* base, and a path that exists is accepted only at or below it.
ResolutionFollowsChangedBaseWhereChecked ==
    (fsLast.op = "resolve_path" /\ fsLast.changed.done
        /\ base_directory = fsLast.changed.dir) =>
        /\ fsLast.base = fsLast.changed.dir
        /\ fsLast.res = ResolvePath(world, fsLast.changed.dir, fsLast.path)
        /\ (fsLast.res.ok /\ Exists(world, Joined(fsLast.base, fsLast.path))) =>
              PathStartsWith(Lexical(fsLast.res.path),
                             Canonicalize(world, fsLast.changed.dir).loc)

\* C25: whatever the number of callers of send, the pieces on stdout are
\* whole lines: the text of a message is followed by its own newline before
\* anything else is written, unless its send failed at the newline, and a
\* newline comes only after the text of its message; a caller is past the
\* lock only while it is the one holding the guard.
SendsDoNotInterleave ==
    /\ \A i \in 1..Len(sending.out) :
          /\ (sending.out[i].part = "json" /\ i < Len(sending.out)) =>
                \/ sending.out[i + 1] = Piece(sending.out[i].msg, "newline")
                \/ sending.out[i].msg \in sending.failed
          /\ sending.out[i].part = "newline" =>
                (i > 1 /\ sending.out[i - 1] = Piece(sending.out[i].msg, "json"))
    /\ \A s \in Senders : sending.at[s] # "idle" => sending.owner = s

\* Both callers have had a whole line written, one after the other.
TwoSendersWroteWholeLines ==
    /\ sending.failed = {}
    /\ sending.at = [s \in Senders |-> "idle"]
    /\ sending.msg["a"] # 0 /\ sending.msg["b"] # 0
    /\ Len(sending.out) = 2 * MaxSends

\* The step is a call of op on a path that resolve_path accepts.
WholeCall(op) == ops' = ops + 1 /\ fsLast'.op = op /\ fsLast'.res.ok

\* The call has failed with err and the file system is as it was.
FailsUnchanged(err) == ~fsLast'.ok /\ fsLast'.err = err /\ world' = world

\* C26: read_file and append_to_file on a path that does not exist fail with
\* FileNotFound, create_file on a path that exists fails with
\* FileAlreadyExists, rename_file onto a destination that exists fails
\* (FileNotFound when the source is missing, FileAlreadyExists otherwise); in
\* each case no file, directory or backup is changed.
FailedPreconditionChangesNothing ==
    [][/\ (WholeCall("read_file") /\ ~fsLast'.existed) => FailsUnchanged("FileNotFound")
       /\ (WholeCall("append_to_file") /\ ~fsLast'.existed) => FailsUnchanged("FileNotFound")
       /\ (WholeCall("create_file") /\ fsLast'.existed) => FailsUnchanged("FileAlreadyExists")
       /\ (WholeCall("rename_file") /\ fsLast'.to.ok /\ fsLast'.toExisted) =>
             FailsUnchanged(IF fsLast'.existed THEN "FileAlreadyExists" ELSE "FileNotFound")
      ]_vars

\* A file was renamed onto a file made before it: the call failed with
\* FileAlreadyExists and both files hold what they held.
RenameOntoExistingFileRefused ==
    /\ fsLast.op = "rename_file"
    /\ fsLast.wasFile
    /\ fsLast.toExisted
    /\ fsLast.to.path # fsLast.res.path
    /\ IsFileAt(world, fsLast.to.path)
    /\ ~fsLast.ok
    /\ fsLast.err = "FileAlreadyExists"
    /\ world.files[fsLast.res.path] = fsLast.pre

\* C27: once the session is initialized it stays initialized, whatever is
\* taken afterwards: requests, further initialize requests, notifications,
\* responses, lines that do not parse, handlers that fail.
InitializedIsOneWay ==
    [][initialized => initialized']_vars

\* A further initialize request was taken in an initialized session, its
\* answer could not be written, and the session is still initialized.
StillInitializedAfterFailedReinitialize ==
    /\ initialized
    /\ last.took = "request"
    /\ last.item.msg.method = "initialize"
    /\ last.initBefore
    /\ last.sendFailed
    /\ pc = "loop"

\* C28: a line that decodes as a Message as it was received is delivered as
\* that Message: the replacements are made only when the strict decode has
\* failed.
WellFormedLineIsDeliveredUnchanged ==
    (parsed.done /\ DecodeMessage(parsed.text).ok) =>
        parsed.result = DecodeMessage(parsed.text)

\* The part of C28 that the code keeps: a line without a backslash that
\* decodes as received is delivered as it decodes.
LineWithoutBackslashIsDeliveredUnchanged ==
    (parsed.done /\ DecodeMessage(parsed.text).ok
        /\ \A i \in 1..Len(parsed.text) : parsed.text[i] # "\\") =>
        parsed.result = DecodeMessage(parsed.text)

\* C29: a line that is not empty and is no Message after the replacements is
\* not delivered as an error: parse_json_message returns Ok with the
\* placeholder Message.
MalformedLineGivesPlaceholder ==
    (parsed.done /\ Trim(parsed.text) # <<>>
        /\ ~DecodeMessage(Normalize(Trim(parsed.text))).ok) =>
        parsed.result.ok

\* The last call failed with err and left the file as it was.
RefusedWith(err) ==
    /\ ~fsLast.ok
    /\ fsLast.err = err
    /\ ContentAt(world, EditedFile) = fsLast.pre

\* What edit_region makes of the file of before with the given end.
RegionResult(end) ==
    ContentAt(EditorEditRegion(EditWorld(fsLast.pre), EditedFile, fsLast.line, end,
                               fsLast.content).world,
              EditedFile)

\* The line bounds an edit of a suggestion gives are line numbers.
BoundsGiven(edit) ==
    IF edit.action = "region" THEN edit.start.kind = "u64" /\ edit.end.kind = "u64"
    ELSE edit.line.kind = "u64"

\* The bounds edit_region checks, on the file of before.
EditRegionChecksBounds ==
    fsLast.op = "edit_region" =>
        IF fsLast.line > fsLast.end THEN RefusedWith("InvalidRange")
        ELSE IF fsLast.line >= Len(LinesBefore) THEN RefusedWith("LineOutOfRange")
        ELSE /\ fsLast.ok
             /\ fsLast.end > Len(LinesBefore) =>
                   ContentAt(world, EditedFile) = RegionResult(Len(LinesBefore))

\* C30: edit_region fails InvalidRange when start > end, whatever the number
\* of lines, and LineOutOfRange when start <= end and start is at or beyond
\* the number of lines; an end beyond the number of lines is no error and
\* acts as the number of lines does; and no other line bound is corrected
\* without a word: an edit whose line bound is no line number fails and
\* leaves the file as it was.
OnlyEndOfRegionIsClamped ==
    /\ EditRegionChecksBounds
    /\ (fsLast.op = "apply_edit" /\ ~BoundsGiven(fsLast.given)) =>
          (~fsLast.ok /\ ContentAt(world, EditedFile) = fsLast.pre)

\* The text one edit alone leaves of a file that held text.
TextAfterEdit(text, e) ==
    ContentAt(ApplyEdit(EditWorld(text), EditedFile, e).world, EditedFile)

\* The text the edits leave when each is made, by itself, on the text the
\* one before it left.
RECURSIVE TextAfterEachInTurn(_, _)
TextAfterEachInTurn(text, edits) ==
    IF edits = <<>> THEN text
    ELSE TextAfterEachInTurn(TextAfterEdit(text, Head(edits)), Tail(edits))

\* C31: an "edit" suggestion that succeeds has made its edits in the order
\* of the list, the line numbers of each read against the file as the edits
\* before it left it: the file is what the edits give when made one by one.
EditsAppliedInTurn ==
    (fsLast.op = "apply_suggestion" /\ fsLast.ok) =>
        ContentAt(world, EditedFile) = TextAfterEachInTurn(fsLast.pre, fsLast.edits)

\* Insert at line 0, then delete line 1, on a file of the lines a and b: the
\* line that was line 0 is the one removed.
InsertThenDeleteRemovedFirstLine ==
    /\ fsLast.op = "apply_suggestion" /\ fsLast.ok
    /\ fsLast.edits = <<EditOp("insert", 0, 0, <<"X">>), EditOp("delete", 1, 0, <<>>)>>
    /\ LinesBefore = <<<<"a">>, <<"b">>>>
    /\ LinesAfter = <<<<"X">>, <<"b">>>>

\* The loop takes a notification or a response in this step.
TakesNotificationOrResponse ==
    /\ Taking
    /\ Head(queue).ok /\ Head(queue).msg.kind \in {"notification", "response"}
    /\ queue' = Tail(queue)
    /\ last'.item = Head(queue)

\* C32: a notification or a response that comes in is only logged: what is
\* written for it is at most the $/log notification, never a response, and
\* the session state, the files and the backups stay as they were.
NotificationAndResponseAreOnlyLogged ==
    [][TakesNotificationOrResponse =>
          /\ \A i \in DOMAIN last'.written : last'.written[i] = LogNotification
          /\ initialized' = initialized
          /\ UNCHANGED <<world, base_directory, backup_dir, created>>]_vars

\* A response came in after initialize: it was logged to the client, nothing
\* else was written and the loop goes on.
ResponseLoggedWhileInitialized ==
    /\ last.took = "response"
    /\ last.written = <<LogNotification>>
    /\ initialized
    /\ pc = "loop"

\* A hunk holds a line that is inserted or deleted.
HoldsChange(hunk) == \E i \in 1..Len(hunk.lines) : hunk.lines[i].sign \in {"+", "-"}

\* C33: a hunk is flushed as soon as it holds more than 3 lines, emitted
\* under its header when it holds an insert or a delete and dropped
\* otherwise: every hunk emitted holds at most 4 lines, at least one of them
\* an insert or a delete.
HunksAreSmallAndHoldAChange ==
    diffed.done =>
        \A h \in 1..Len(diffed.hunks) :
            /\ Len(diffed.hunks[h].lines) >= 1
            /\ Len(diffed.hunks[h].lines) <= FlushThreshold + 1
            /\ HoldsChange(diffed.hunks[h])

\* More changes than one hunk holds: a hunk of 4 lines was flushed under way
\* and a second one was emitted behind it.
FullHunkFlushedUnderWay ==
    /\ diffed.done
    /\ Len(diffed.changes) > FlushThreshold + 1
    /\ Len(diffed.hunks) = 2
    /\ Len(diffed.hunks[1].lines) = FlushThreshold + 1

\* How many of the changes from..to are of one of the tags.
RECURSIVE CountTagged(_, _, _, _)
CountTagged(changes, from, to, tags) ==
    IF from > to THEN 0
    ELSE (IF changes[from].tag \in tags THEN 1 ELSE 0)
         + CountTagged(changes, from + 1, to, tags)

\* The sign a hunk line has for a change of a tag.
SignOf(tag) == IF tag = "equal" THEN " " ELSE IF tag = "delete" THEN "-" ELSE "+"

\* The lines of the hunk are the changes from the i-th on.
HunkBeginsAt(hunk, changes, i) ==
    /\ i + Len(hunk.lines) - 1 <= Len(changes)
    /\ \A k \in 1..Len(hunk.lines) :
          /\ hunk.lines[k].sign = SignOf(changes[i + k - 1].tag)
          /\ hunk.lines[k].text = changes[i + k - 1].value

\* The header of the hunk, its lines being the changes from the i-th on,
\* counts the lines of the hunk and gives the place of its first line.
HeaderFits(hunk, changes, i) ==
    LET to == i + Len(hunk.lines) - 1 IN
    /\ hunk.orig_size = CountTagged(changes, i, to, {"equal", "delete"})
    /\ hunk.mod_size = CountTagged(changes, i, to, {"equal", "insert"})
    /\ hunk.orig_start = 1 + CountTagged(changes, 1, i - 1, {"equal", "delete"})
    /\ hunk.mod_start = 1 + CountTagged(changes, 1, i - 1, {"equal", "insert"})

HeaderIsRight(hunk, changes) ==
    \E i \in 1..Len(changes) : HunkBeginsAt(hunk, changes, i) /\ HeaderFits(hunk, changes, i)

\* C37: in the header "@@ -o,lo +m,lm @@" of every hunk emitted, the first
\* as well as the later ones, lo is the number of context and delete lines
\* of the hunk, lm the number of its context and insert lines, and o and m
\* are the places, counted from 1, of its first line in the original and in
\* the modified text.
EveryHeaderCountsItsHunk ==
    diffed.done =>
        \A h \in 1..Len(diffed.hunks) : HeaderIsRight(diffed.hunks[h], diffed.changes)

\* The header is right for a hunk that begins with a context line, and for
\* a hunk that begins with the first change of all.
HeaderCountsHunkThatResetItsSizes ==
    diffed.done =>
        \A h \in 1..Len(diffed.hunks) :
            (\/ diffed.hunks[h].lines[1].sign = " "
             \/ HunkBeginsAt(diffed.hunks[h], diffed.changes, 1) /\ h = 1)
                => HeaderIsRight(diffed.hunks[h], diffed.changes)

\* The insert and delete lines of the changes, as hunk lines, in order.
RECURSIVE ChangeLinesOf(_)
ChangeLinesOf(changes) ==
    IF changes = <<>> THEN <<>>
    ELSE (IF Head(changes).tag = "equal" THEN <<>>
          ELSE <<HunkLine(SignOf(Head(changes).tag), Head(changes))>>)
         \o ChangeLinesOf(Tail(changes))

\* The insert and delete lines of the hunks emitted, in order.
RECURSIVE ChangeLinesIn(_)
ChangeLinesIn(hunks) ==
    IF hunks = <<>> THEN <<>>
    ELSE SelectSeq(Head(hunks).lines, LAMBDA l : l.sign \in {"+", "-"})
         \o ChangeLinesIn(Tail(hunks))

\* C38: every insert and every delete line of the alignment of the two
\* texts stands in exactly one hunk emitted, in the order of the alignment:
\* none is dropped or doubled when a hunk is flushed, begun anew or dropped,
\* and the diff has no hunk only when the alignment has no change.
EveryChangeIsInOneHunk ==
    diffed.done =>
        /\ ChangeLinesIn(diffed.hunks) = ChangeLinesOf(diffed.changes)
        /\ diffed.hunks = <<>> => ChangeLinesOf(diffed.changes) = <<>>

\* A hunk of context lines alone was flushed and dropped, and the one change
\* behind it came out in the one hunk emitted.
ChangeKeptBehindDroppedHunk ==
    /\ diffed.done
    /\ Len(diffed.changes) = FlushThreshold + 2
    /\ \A i \in 1..(FlushThreshold + 1) : diffed.changes[i].tag = "equal"
    /\ diffed.changes[FlushThreshold + 2].tag = "insert"
    /\ Len(diffed.hunks) = 1
    /\ ChangeLinesIn(diffed.hunks) = ChangeLinesOf(diffed.changes)

LineOps == {"insert_line", "replace_line", "delete_line", "edit_region"}

\* A line operation of the file service is called in this step and fails on
\* its line numbers.
LineOpFailsOnItsBounds ==
    /\ ops' = ops + 1
    /\ fsLast'.op \in LineOps
    /\ ~fsLast'.ok
    /\ fsLast'.err \in {"LineOutOfRange", "InvalidRange"}

\* C34: a line operation of the file service that fails LineOutOfRange or
\* InvalidRange leaves everything as it was: the content of the file is the
\* same and no backup has been added or pruned.
FailedLineOpChangesNothing ==
    [][LineOpFailsOnItsBounds => world' = world]_vars

\* The file itself is as it was after such a failure.
FailedLineOpLeavesTheFile ==
    [][LineOpFailsOnItsBounds =>
          /\ fsLast'.wasFile
          /\ ContentAt(world', fsLast'.res.path) = fsLast'.pre]_vars

\* The numbers of the requests that wait in the channel, oldest first.
QueuedIds(q) == [i \in 1..Len(q) |-> q[i].msg.id]

\* C35: no line is lost between the making of the transport and the
\* subscription of the serving loop: the lines the reader has read and
\* published before launch_mcp calls receive(), as many as the channel
\* holds, wait for the loop in the order of the input.
LinesReadBeforeSubscriptionAreKept ==
    (pc = "start" /\ serving.read <= MaxQueue) =>
        QueuedIds(queue) = [i \in 1..serving.read |-> i]

\* Once the loop has subscribed, a line published into a channel that has
\* room waits behind those that are there.
LinePublishedAfterSubscriptionIsKept ==
    [][(/\ subscribed /\ pc \notin {"start", "returned_ok", "returned_err"}
        /\ serving'.read = serving.read + 1
        /\ Len(queue) < MaxQueue)
          => QueuedIds(queue') = Append(QueuedIds(queue), serving.read + 1)]_vars

\* Two paths of directories designate the same directory.
SameDirectory(a, b) ==
    /\ IsDir(world, a) /\ IsDir(world, b)
    /\ Canonicalize(world, a).loc = Canonicalize(world, b).loc

\* The directory paths are resolved against, the directory whose .backups
\* the backup manager uses, the root of the analyzer and the directory
\* get_current_directory reports are one directory.
DirectoriesAgree ==
    /\ backup_dir = Append(ParentOf(backup_dir), ".backups")
    /\ SameDirectory(base_directory, ParentOf(backup_dir))
    /\ SameDirectory(base_directory, analyzer_root)
    /\ SameDirectory(base_directory, current_directory)

\* C36: after any sequence of changes of directory, failed ones among them,
\* the base directory of path resolution, the directory of the backup
\* manager's .backups, the root of the analyzer and the directory reported
\* by get_current_directory are the same directory, and a change of
\* directory that fails leaves all of them as they were.
DirectoriesStayTogether ==
    [][/\ DirectoriesAgree'
       /\ (fsLast'.op = "change_current_directory" /\ ops' = ops + 1 /\ ~fsLast'.ok)
             => UNCHANGED <<base_directory, backup_dir, analyzer_root, current_directory>>]_vars

\* After every change of directory that returns Ok the four agree.
DirectoriesAgreeAfterOk ==
    [][(fsLast'.op = "change_current_directory" /\ ops' = ops + 1 /\ fsLast'.ok)
          => DirectoriesAgree']_vars

\* The backup files there are, in any .backups directory, of the file the
\* last call was about.
BackupsTaken == {r \in world.bk : r.bucket = fsLast.res.path}

\* C39: a backup taken for a file is removed only by pruning: after any
\* later operations, a change of the base directory to a directory above or
\* below the old one among them, list_backups for the file still returns
\* every backup that has not been pruned and restore_backup still finds one.
BackupsOutliveDirectoryChange ==
    /\ (fsLast.op = "list_backups" /\ fsLast.res.ok) =>
          (fsLast.ok /\ BackupsTaken \subseteq fsLast.seen)
    /\ (fsLast.op = "restore_backup" /\ fsLast.res.ok /\ BackupsTaken # {}) => fsLast.ok

\* No step takes a backup file away from the directory it was written to.
BackupFilesStay ==
    [][\A r \in world.bk : \E s \in world'.bk : SameBackupFile(r, s)]_vars

\* While the base directory is the one the file service was made with,
\* every backup of the file is listed.
BackupsListedUnderFirstBase ==
    (fsLast.op = "list_backups" /\ fsLast.res.ok /\ backup_dir = <<"p", ".backups">>) =>
        (fsLast.ok /\ BackupsTaken \subseteq fsLast.seen)

====
